---- MODULE Spec2Model ----
(***************************************************************************)
(* Terminology mapping and translation engine of the FHIR backend:         *)
(* relevance scoring, autocomplete, forward / reverse translation and the  *)
(* creation of CodeSystems and ConceptMaps.                                *)
(*                                                                         *)
(* Text (codes, displays, definitions, designation values, search terms)   *)
(* is a sequence of character codes, so that lower-casing, containment and *)
(* prefix tests are computed and not assumed.  System urls, languages and  *)
(* equivalence codes are only ever compared for equality and are strings.  *)
(***************************************************************************)
EXTENDS Integers, Sequences, FiniteSets, Bags, TLC

VARIABLES
    codeSystems,    \* Concept Store: CodeSystem rows, each with its concept rows
    conceptMaps,    \* Mapping Store: ConceptMap rows with groups/elements/targets
    handlers,       \* per client: the POST (create) handler it runs
    response,       \* what the last read operation answered, Idle before it
    scoreArgs,      \* [concept, term]: the arguments of calculateRelevanceScore
    scoreResult,    \* [done, score]: its result
    rateLimitStore, \* per IP: <<>>, or <<rateData>> with rateData = [requests, windowStart]
    limiterArgs,    \* the arguments rateLimit(...) was called with
    clock,          \* Date.now()
    passed,         \* per IP: the times of the requests handed to next()
    clinical,       \* the patient, condition and encounter tables
    env             \* process.env

vars == <<codeSystems, conceptMaps, handlers, response, scoreArgs, scoreResult,
          rateLimitStore, limiterArgs, clock, passed, clinical, env>>

limiter == <<rateLimitStore, limiterArgs, clock, passed>>

store == <<codeSystems, conceptMaps>>

Idle == [op |-> "idle"]

\* No client has sent a create request.
NoHandlers == <<>>

\* No rate limiter is mounted: no IP has an entry.
NoLimiter == <<>>

\* The clinical tables are not used, and no variable of the environment is
\* read.
NoClinical == <<>>
NoEnv == <<>>

records == <<clinical, env>>

(***************************************************************************)
(* String primitives of the JavaScript runtime.                            *)
(***************************************************************************)
\* One UTF-16 unit of String.prototype.toLowerCase, ASCII range.
toLowerChar(c) == IF c \in 65..90 THEN c + 32 ELSE c

toLowerCase(s) == [i \in 1..Len(s) |-> toLowerChar(s[i])]

\* String.prototype.includes
includes(s, t) ==
    \E i \in 0..(Len(s) - Len(t)) : SubSeq(s, i + 1, i + Len(t)) = t

\* String.prototype.startsWith
startsWith(s, t) == Len(t) <= Len(s) /\ SubSeq(s, 1, Len(t)) = t

\* JavaScript truthiness of a string or null: null and "" are both falsy;
\* an absent (null) text is the empty sequence.
Truthy(s) == Len(s) > 0

(***************************************************************************)
(* Relevance scorer.                                                       *)
(***************************************************************************)
\* term is searchTerm.toLowerCase()
CodeScore(code, term) ==
    IF toLowerCase(code) = term THEN 100
    ELSE IF includes(toLowerCase(code), term) THEN 50
    ELSE 0

\* Mutation: the startsWith branch is lost, a prefix hit scores as a plain hit.
DisplayScoreNoPrefix(display, term) ==
    IF Truthy(display)
    THEN LET d == toLowerCase(display)
         IN  IF d = term THEN 90
             ELSE IF includes(d, term) THEN 40
             ELSE 0
    ELSE 0

DisplayScore(display, term) ==
    IF Truthy(display)
    THEN LET d == toLowerCase(display)
         IN  IF d = term THEN 90
             ELSE IF startsWith(d, term) THEN 70
             ELSE IF includes(d, term) THEN 40
             ELSE 0
    ELSE 0

\* Mutation: the definition is compared for equality instead of containment.
DefinitionScoreExact(definition, term) ==
    IF Truthy(definition) /\ toLowerCase(definition) = term THEN 20 ELSE 0

DefinitionScore(definition, term) ==
    IF Truthy(definition) /\ includes(toLowerCase(definition), term) THEN 20 ELSE 0

RECURSIVE DesignationScore(_, _)
DesignationScore(designations, term) ==
    IF designations = <<>> THEN 0
    ELSE LET value == toLowerCase(Head(designations).value)
         IN  (IF value = term THEN 60
              ELSE IF includes(value, term) THEN 30
              ELSE 0)
             + DesignationScore(Tail(designations), term)

calculateRelevanceScore(concept, searchTerm) ==
    LET term == toLowerCase(searchTerm)
    IN  CodeScore(concept.code, term)
        + DisplayScore(concept.display, term)
        + DefinitionScore(concept.definition, term)
        + DesignationScore(concept.designations, term)

(***************************************************************************)
(* Store queries (Prisma).  Rows come back in insertion order.            *)
(***************************************************************************)
RECURSIVE Flatten(_)
Flatten(ss) == IF ss = <<>> THEN <<>> ELSE Head(ss) \o Flatten(Tail(ss))

\* prisma.codeSystemConcept.findFirst({where: {code, codeSystem: {url}}}):
\* the matching rows joined with their CodeSystem; the first is the result,
\* the empty sequence is null.
findFirstConcept(code, url) ==
    LET RowsOf(cs) ==
            LET hit == SelectSeq(cs.concepts, LAMBDA c : c.code = code)
            IN  [i \in 1..Len(hit) |-> [codeSystem |-> [url |-> cs.url, name |-> cs.name],
                                        code |-> hit[i].code,
                                        display |-> hit[i].display,
                                        definition |-> hit[i].definition,
                                        designations |-> hit[i].designations]]
        systems == SelectSeq(codeSystems, LAMBDA cs : cs.url = url)
    IN  Flatten([i \in 1..Len(systems) |-> RowsOf(systems[i])])

\* An omitted optional url (null, undefined or "") is the empty string.
NoSystem == ""

\* Mutation: the loop over the matching elements stops at the first element
\* that has targets.
findMappingsFirstElement(code, system, targetSystem) ==
    LET maps == SelectSeq(conceptMaps, LAMBDA m :
                    /\ m.sourceUri = system
                    /\ (targetSystem # NoSystem => m.targetUri = targetSystem))
        Edge(m, t) == [targetSystem |-> m.targetUri, targetCode |-> t.code,
                       targetDisplay |-> t.display, equivalence |-> t.equivalence,
                       comment |-> t.comment]
        ElementEdges(m, e) == [k \in 1..Len(e.targets) |-> Edge(m, e.targets[k])]
        GroupEdges(m, g) ==
            LET elements == SelectSeq(g.elements, LAMBDA e : e.code = code)
            IN  [k \in 1..Len(elements) |-> ElementEdges(m, elements[k])]
        MapEdges(m) == Flatten([k \in 1..Len(m.groups) |-> GroupEdges(m, m.groups[k])])
        perElement == SelectSeq(Flatten([k \in 1..Len(maps) |-> MapEdges(maps[k])]),
                                LAMBDA edges : edges # <<>>)
    IN  IF perElement = <<>> THEN <<>> ELSE Head(perElement)

\* Mutation: the edges stored towards the system are returned too, inverted.
findMappingsEitherDirection(code, system, targetSystem) ==
    LET maps == SelectSeq(conceptMaps, LAMBDA m :
                    /\ m.sourceUri = system
                    /\ (targetSystem # NoSystem => m.targetUri = targetSystem))
        back == SelectSeq(conceptMaps, LAMBDA m : m.targetUri = system)
        Edge(m, t) == [targetSystem |-> m.targetUri, targetCode |-> t.code,
                       targetDisplay |-> t.display, equivalence |-> t.equivalence,
                       comment |-> t.comment]
        ElementEdges(m, e) == [k \in 1..Len(e.targets) |-> Edge(m, e.targets[k])]
        GroupEdges(m, g) ==
            LET elements == SelectSeq(g.elements, LAMBDA e : e.code = code)
            IN  Flatten([k \in 1..Len(elements) |-> ElementEdges(m, elements[k])])
        MapEdges(m) == Flatten([k \in 1..Len(m.groups) |-> GroupEdges(m, m.groups[k])])
        Inverted(m, e) ==
            LET targets == SelectSeq(e.targets, LAMBDA t : t.code = code)
            IN  [k \in 1..Len(targets) |->
                    [targetSystem |-> m.sourceUri, targetCode |-> e.code,
                     targetDisplay |-> e.display, equivalence |-> targets[k].equivalence,
                     comment |-> targets[k].comment]]
        BackEdges(m) ==
            Flatten([g \in 1..Len(m.groups) |->
                Flatten([k \in 1..Len(m.groups[g].elements) |->
                            Inverted(m, m.groups[g].elements[k])])])
    IN  Flatten([k \in 1..Len(maps) |-> MapEdges(maps[k])])
        \o Flatten([k \in 1..Len(back) |-> BackEdges(back[k])])

findMappingsForConcept(code, system, targetSystem) ==
    LET maps == SelectSeq(conceptMaps, LAMBDA m :
                    /\ m.sourceUri = system
                    /\ (targetSystem # NoSystem => m.targetUri = targetSystem))
        Edge(m, t) == [targetSystem |-> m.targetUri, targetCode |-> t.code,
                       targetDisplay |-> t.display, equivalence |-> t.equivalence,
                       comment |-> t.comment]
        ElementEdges(m, e) == [k \in 1..Len(e.targets) |-> Edge(m, e.targets[k])]
        GroupEdges(m, g) ==
            LET elements == SelectSeq(g.elements, LAMBDA e : e.code = code)
            IN  Flatten([k \in 1..Len(elements) |-> ElementEdges(m, elements[k])])
        MapEdges(m) == Flatten([k \in 1..Len(m.groups) |-> GroupEdges(m, m.groups[k])])
    IN  Flatten([k \in 1..Len(maps) |-> MapEdges(maps[k])])

\* Mutation: the maps are not selected by their target system.
findReverseMappingsAnyTarget(code, system) ==
    LET ElementEdge(m, e) ==
            LET targets == SelectSeq(e.targets, LAMBDA t : t.code = code)
            IN  IF Len(targets) > 0
                THEN <<[sourceSystem |-> m.sourceUri, sourceCode |-> e.code,
                        sourceDisplay |-> e.display,
                        equivalence |-> targets[1].equivalence]>>
                ELSE <<>>
        GroupEdges(m, g) ==
            Flatten([k \in 1..Len(g.elements) |-> ElementEdge(m, g.elements[k])])
        MapEdges(m) == Flatten([k \in 1..Len(m.groups) |-> GroupEdges(m, m.groups[k])])
    IN  Flatten([k \in 1..Len(conceptMaps) |-> MapEdges(conceptMaps[k])])

\* Mutation: the equivalence is read from the element's first target, not
\* from its first target with the requested code.
findReverseMappingsUnfiltered(code, system) ==
    LET maps == SelectSeq(conceptMaps, LAMBDA m : m.targetUri = system)
        ElementEdge(m, e) ==
            LET targets == SelectSeq(e.targets, LAMBDA t : t.code = code)
            IN  IF Len(targets) > 0
                THEN <<[sourceSystem |-> m.sourceUri, sourceCode |-> e.code,
                        sourceDisplay |-> e.display,
                        equivalence |-> e.targets[1].equivalence]>>
                ELSE <<>>
        GroupEdges(m, g) ==
            Flatten([k \in 1..Len(g.elements) |-> ElementEdge(m, g.elements[k])])
        MapEdges(m) == Flatten([k \in 1..Len(m.groups) |-> GroupEdges(m, m.groups[k])])
    IN  Flatten([k \in 1..Len(maps) |-> MapEdges(maps[k])])

findReverseMappingsForConcept(code, system) ==
    LET maps == SelectSeq(conceptMaps, LAMBDA m : m.targetUri = system)
        ElementEdge(m, e) ==
            LET targets == SelectSeq(e.targets, LAMBDA t : t.code = code)
            IN  IF Len(targets) > 0
                THEN <<[sourceSystem |-> m.sourceUri, sourceCode |-> e.code,
                        sourceDisplay |-> e.display,
                        equivalence |-> targets[1].equivalence]>>
                ELSE <<>>
        GroupEdges(m, g) ==
            Flatten([k \in 1..Len(g.elements) |-> ElementEdge(m, g.elements[k])])
        MapEdges(m) == Flatten([k \in 1..Len(m.groups) |-> GroupEdges(m, m.groups[k])])
    IN  Flatten([k \in 1..Len(maps) |-> MapEdges(maps[k])])

(***************************************************************************)
(* Error responses (errorHandler) and POST /fhir/terminology/$translate.   *)
(***************************************************************************)
\* errorHandler on a ValidationError: 400 OperationOutcome.
ValidationErrorResponse ==
    [status |-> 400, resourceType |-> "OperationOutcome", code |-> "validation-error"]

\* errorHandler on an error it does not know (a failed store call): 500.
InternalErrorResponse ==
    [status |-> 500, resourceType |-> "OperationOutcome",
     code |-> "internal-server-error"]

\* errorHandler on Prisma's P2002 (unique constraint): 409.
DuplicateKeyResponse ==
    [status |-> 409, resourceType |-> "OperationOutcome", code |-> "duplicate-key"]

\* errorHandler on a NotFoundError: 404.
NotFoundResponse ==
    [status |-> 404, resourceType |-> "OperationOutcome", code |-> "not-found"]

\* errorHandler on a known Prisma request error other than P2002 and P2025.
DatabaseErrorResponse ==
    [status |-> 400, resourceType |-> "OperationOutcome", code |-> "database-error"]

\* Mutation: an error of the store is answered as an empty success.
errorHandlerMasking(err) ==
    CASE err = "ValidationError" -> ValidationErrorResponse
      [] err = "NotFoundError" -> NotFoundResponse
      [] OTHER -> [status |-> 200, resourceType |-> "Parameters"]

\* errorHandler(err, req, res, next): the OperationOutcome for an error a
\* handler threw.  The errors: the two of the handlers, Prisma's known
\* request errors by code (any other code is "P-other"), and any other
\* error a store call throws ("unknown": the store cannot be reached, the
\* arguments are rejected).
errorHandler(err) ==
    CASE err = "P2002" -> DuplicateKeyResponse
      [] err = "P2025" -> NotFoundResponse
      [] err = "P-other" -> DatabaseErrorResponse
      [] err = "ValidationError" -> ValidationErrorResponse
      [] err = "NotFoundError" -> NotFoundResponse
      [] OTHER -> InternalErrorResponse

\* Mutation: the source concept is not looked up, only the mappings are.
translateUnchecked(code, system, target) ==
    IF ~Truthy(code) \/ system = NoSystem
    THEN ValidationErrorResponse
    ELSE LET mappings == findMappingsForConcept(code, system, target)
         IN  IF Len(mappings) = 0
             THEN [status |-> 200, resourceType |-> "Parameters", result |-> FALSE,
                   source |-> <<>>, matches |-> <<>>, message |-> "no-mappings"]
             ELSE [status |-> 200, resourceType |-> "Parameters", result |-> TRUE,
                   source |-> <<[system |-> system, code |-> code]>>,
                   matches |-> mappings, message |-> ""]

\* Mutation: the empty-mappings branch is missing, an empty list of mappings
\* falls through to the positive answer.
translateNoEmptyBranch(code, system, target) ==
    IF ~Truthy(code) \/ system = NoSystem
    THEN ValidationErrorResponse
    ELSE LET sourceConcept == findFirstConcept(code, system)
         IN  IF sourceConcept = <<>>
             THEN [status |-> 200, resourceType |-> "Parameters", result |-> FALSE,
                   source |-> <<>>, matches |-> <<>>, message |-> "code-not-found"]
             ELSE [status |-> 200, resourceType |-> "Parameters", result |-> TRUE,
                   source |-> <<[system |-> sourceConcept[1].codeSystem.url,
                                 code |-> sourceConcept[1].code,
                                 display |-> sourceConcept[1].display]>>,
                   matches |-> findMappingsForConcept(code, system, target),
                   message |-> ""]

\* The handler's answer: status, and for a Parameters body the `result`
\* parameter, the `source` coding (a sequence of 0 or 1), the `match`
\* parameters and which `message` is given.
translate(code, system, target) ==
    IF ~Truthy(code) \/ system = NoSystem
    THEN ValidationErrorResponse
    ELSE LET sourceConcept == findFirstConcept(code, system)
         IN  IF sourceConcept = <<>>
             THEN [status |-> 200, resourceType |-> "Parameters", result |-> FALSE,
                   source |-> <<>>, matches |-> <<>>, message |-> "code-not-found"]
             ELSE LET mappings == findMappingsForConcept(code, system, target)
                  IN  IF Len(mappings) = 0
                      THEN [status |-> 200, resourceType |-> "Parameters",
                            result |-> FALSE, source |-> <<>>, matches |-> <<>>,
                            message |-> "no-mappings"]
                      ELSE [status |-> 200, resourceType |-> "Parameters",
                            result |-> TRUE,
                            source |-> <<[system |-> sourceConcept[1].codeSystem.url,
                                          code |-> sourceConcept[1].code,
                                          display |-> sourceConcept[1].display]>>,
                            matches |-> mappings, message |-> ""]

\* The store queries the translate handler issues, in order.
translateQueries(code, system, target) ==
    IF ~Truthy(code) \/ system = NoSystem
    THEN <<>>
    ELSE <<"codeSystemConcept.findFirst">>
         \o IF findFirstConcept(code, system) = <<>> THEN <<>>
            ELSE <<"conceptMap.findMany">>

\* POST /fhir/ConceptMap/:id/$translate.  The id of a ConceptMap is its
\* place in the store.  The element is the first with the code in the first
\* group that has one; the match is made of its first target, and of
\* undefined fields and the equivalence 'equivalent' when it has no target.
conceptMapTranslate(id, code, system) ==
    IF ~Truthy(code) \/ system = NoSystem
    THEN ValidationErrorResponse
    ELSE IF id \notin DOMAIN conceptMaps
    THEN NotFoundResponse
    ELSE
    LET conceptMap == conceptMaps[id]
        Elements(g) == SelectSeq(conceptMap.groups[g].elements, LAMBDA e : e.code = code)
        Matching == {g \in DOMAIN conceptMap.groups : Len(Elements(g)) > 0}
    IN  IF Matching = {}
        THEN [status |-> 200, resourceType |-> "Parameters", result |-> FALSE,
              source |-> <<>>, matches |-> <<>>, message |-> ""]
        ELSE
        LET matchingElement ==
                Elements(CHOOSE g \in Matching : \A h \in Matching : g <= h)[1]
            targets == matchingElement.targets
        IN  [status |-> 200, resourceType |-> "Parameters", result |-> TRUE,
             source |-> <<>>,
             matches |-> <<[targetSystem |-> conceptMap.targetUri,
                            targetCode |-> IF targets = <<>> THEN <<>>
                                           ELSE targets[1].code,
                            targetDisplay |-> IF targets = <<>> THEN <<>>
                                              ELSE targets[1].display,
                            equivalence |-> IF targets = <<>> \/ targets[1].equivalence = ""
                                            THEN "equivalent"
                                            ELSE targets[1].equivalence,
                            comment |-> <<>>]>>,
             message |-> ""]

(***************************************************************************)
(* System urls (the alias table of the autocomplete handler).              *)
(***************************************************************************)
NAMASTE == "https://ayush.gov.in/fhir/CodeSystem/namaste"
UNANI == "https://ayush.gov.in/fhir/CodeSystem/unani"
ICD11_TM2 == "http://id.who.int/icd/release/11/mms"
ICD11 == "https://icd.who.int/browse11/l-m/en"

(***************************************************************************)
(* GET /fhir/terminology/$dual-code-lookup.  A request is [namasteCode,    *)
(* icd11Code, includeDetails]; an omitted code is the empty text.  The     *)
(* answer lists the parameters in the order the handler pushes them,       *)
(* behind the result flag it puts in front.                                *)
(***************************************************************************)
icd11Systems == <<ICD11_TM2, ICD11>>

\* The loop over icd11Systems runs until a system holds the code: the turns
\* it makes.
icd11Turns(code) ==
    LET Holding == {i \in DOMAIN icd11Systems :
                       findFirstConcept(code, icd11Systems[i]) # <<>>}
    IN  IF Holding = {} THEN Len(icd11Systems)
        ELSE CHOOSE i \in Holding : \A j \in Holding : i <= j

Coding(concept) ==
    [system |-> concept.codeSystem.url, code |-> concept.code,
     display |-> concept.display]

\* Mutation: the NAMASTE slot is pushed whether or not the concept exists.
namasteParametersUnchecked(req) ==
    LET found == findFirstConcept(req.namasteCode, NAMASTE)
        mappings == findMappingsForConcept(req.namasteCode, NAMASTE, NoSystem)
    IN  IF ~Truthy(req.namasteCode) THEN <<>>
        ELSE <<[name |-> "namaste",
                part |-> <<[name |-> "code",
                            valueCoding |-> [system |-> NAMASTE,
                                             code |-> req.namasteCode,
                                             display |-> IF found = <<>> THEN <<>>
                                                         ELSE found[1].display]]>>]>>
             \o IF Len(mappings) > 0
                THEN <<[name |-> "mappedIcd11Codes", part |-> mappings]>>
                ELSE <<>>

\* if (namasteCode) { ... }: the parameters pushed for the NAMASTE code.
namasteParameters(req) ==
    LET found == findFirstConcept(req.namasteCode, NAMASTE)
    IN  IF ~Truthy(req.namasteCode) \/ found = <<>> THEN <<>>
        ELSE
        LET namasteConcept == found[1]
            mappings == findMappingsForConcept(req.namasteCode,
                                               namasteConcept.codeSystem.url, NoSystem)
        IN  <<[name |-> "namaste",
               part |-> <<[name |-> "code", valueCoding |-> Coding(namasteConcept)]>>
                        \o (IF req.includeDetails /\ Truthy(namasteConcept.definition)
                            THEN <<[name |-> "definition",
                                    valueString |-> namasteConcept.definition]>>
                            ELSE <<>>)
                        \o (IF req.includeDetails
                               /\ Len(namasteConcept.designations) > 0
                            THEN <<[name |-> "designations",
                                    valueString |-> namasteConcept.designations]>>
                            ELSE <<>>)]>>
            \o IF Len(mappings) > 0
               THEN <<[name |-> "mappedIcd11Codes",
                       part |-> [i \in DOMAIN mappings |->
                           [targetCode |-> [system |-> mappings[i].targetSystem,
                                            code |-> mappings[i].targetCode,
                                            display |-> mappings[i].targetDisplay],
                            equivalence |-> mappings[i].equivalence]]]>>
               ELSE <<>>

\* if (icd11Code) { for (const systemUrl of icd11Systems) ... }: the
\* parameters pushed for the ICD-11 code.
icd11Parameters(req) ==
    LET systemUrl == icd11Systems[icd11Turns(req.icd11Code)]
        found == findFirstConcept(req.icd11Code, systemUrl)
    IN  IF ~Truthy(req.icd11Code) \/ found = <<>> THEN <<>>
        ELSE
        LET icd11Concept == found[1]
            reverseMappings == findReverseMappingsForConcept(req.icd11Code, systemUrl)
        IN  <<[name |-> "icd11",
               part |-> <<[name |-> "code", valueCoding |-> Coding(icd11Concept)]>>
                        \o (IF req.includeDetails /\ Truthy(icd11Concept.definition)
                            THEN <<[name |-> "definition",
                                    valueString |-> icd11Concept.definition]>>
                            ELSE <<>>)]>>
            \o IF Len(reverseMappings) > 0
               THEN <<[name |-> "mappedNamasteCodes",
                       part |-> [i \in DOMAIN reverseMappings |->
                           [sourceCode |-> [system |-> reverseMappings[i].sourceSystem,
                                            code |-> reverseMappings[i].sourceCode,
                                            display |-> reverseMappings[i].sourceDisplay],
                            equivalence |-> reverseMappings[i].equivalence]]]>>
               ELSE <<>>

\* Mutation: the request is not validated.
dualCodeLookupUnvalidated(req) ==
    LET parameter == namasteParameters(req) \o icd11Parameters(req)
    IN  [status |-> 200, resourceType |-> "Parameters",
         parameter |-> <<[name |-> "result",
                          valueBoolean |-> Len(parameter) > 1]>> \o parameter]

\* The handler.  The result flag is computed from the parameters pushed
\* before it is put in front: true when there are at least two.
dualCodeLookup(req) ==
    IF ~Truthy(req.namasteCode) /\ ~Truthy(req.icd11Code)
    THEN ValidationErrorResponse
    ELSE LET parameter == namasteParameters(req) \o icd11Parameters(req)
         IN  [status |-> 200, resourceType |-> "Parameters",
              parameter |-> <<[name |-> "result",
                               valueBoolean |-> Len(parameter) > 1]>> \o parameter]

\* The store queries the handler issues, in order.
dualCodeLookupQueries(req) ==
    IF ~Truthy(req.namasteCode) /\ ~Truthy(req.icd11Code)
    THEN <<>>
    ELSE (IF ~Truthy(req.namasteCode) THEN <<>>
          ELSE <<"codeSystemConcept.findFirst">>
               \o IF findFirstConcept(req.namasteCode, NAMASTE) = <<>> THEN <<>>
                  ELSE <<"conceptMap.findMany">>)
         \o (IF ~Truthy(req.icd11Code) THEN <<>>
             ELSE [i \in 1..icd11Turns(req.icd11Code) |-> "codeSystemConcept.findFirst"]
                  \o IF icd11Parameters(req) = <<>> THEN <<>>
                     ELSE <<"conceptMap.findMany">>)

(***************************************************************************)
(* GET /fhir/terminology/$autocomplete.                                    *)
(***************************************************************************)
DefaultLimit == 20
MaxTake == 50
MinSearchLength == 2

Min(a, b) == IF a <= b THEN a ELSE b

\* What systemUrls[key] yields for a key that names a member every object
\* literal inherits: the Object function, the Object prototype.
ObjectConstructor == "[Function: Object]"
ObjectPrototype == "[Object: null prototype] {}"
InheritedMembers == {ObjectConstructor, ObjectPrototype}

\* systemUrls[systemKey]: the alias table is an object literal, so the look-up
\* finds its four own keys and the members it inherits; any other key yields
\* undefined.
systemUrls(key) ==
    CASE key = "namaste" -> NAMASTE
      [] key = "unani" -> UNANI
      [] key = "icd11-tm2" -> ICD11_TM2
      [] key = "icd11" -> ICD11
      [] key = "constructor" -> ObjectConstructor
      [] key = "__proto__" -> ObjectPrototype
      [] OTHER -> NoSystem

\* { contains: search, mode: 'insensitive' } on a nullable column
containsInsensitive(field, search) ==
    Truthy(field) /\ includes(toLowerCase(field), toLowerCase(search))

\* The where clause of the concepts query.
conceptMatches(c, search, includeDesignations) ==
    \/ containsInsensitive(c.code, search)
    \/ containsInsensitive(c.display, search)
    \/ containsInsensitive(c.definition, search)
    \/ /\ includeDesignations
       /\ \E i \in DOMAIN c.designations :
             containsInsensitive(c.designations[i].value, search)

\* Ascending order of text, character by character.
textLess(a, b) ==
    \E k \in 1..(Min(Len(a), Len(b)) + 1) :
        /\ \A i \in 1..(k - 1) : a[i] = b[i]
        /\ \/ k > Len(a) /\ k <= Len(b)
           \/ k <= Len(a) /\ k <= Len(b) /\ a[k] < b[k]

\* orderBy: [{ display: 'asc' }, { code: 'asc' }]
rowBefore(x, y) ==
    \/ textLess(x.display, y.display)
    \/ x.display = y.display /\ textLess(x.code, y.code)

\* The ordered rows: a row's place is one more than the number of rows
\* that precede it (rows equal under the order keep the order they have).
\* The rows and their places are each computed once.
orderByDisplayCode(rows) ==
    LET Place(r, i) ==
            1 + Cardinality({j \in 1..Len(r) :
                    \/ rowBefore(r[j], r[i])
                    \/ ~rowBefore(r[i], r[j]) /\ j < i})
        Places(r) == SubSeq([i \in 1..Len(r) |-> Place(r, i)], 1, Len(r))
        Ordered(r, place) ==
            [k \in 1..Len(r) |-> r[CHOOSE i \in 1..Len(r) : place[i] = k]]
    IN  CHOOSE out \in UNION {{Ordered(r, place) : place \in {Places(r)}}
                              : r \in {rows}} : TRUE

\* take: Math.min(parseInt(limit), 50)
take(rows, limit) == SubSeq(rows, 1, Min(Min(limit, MaxTake), Len(rows)))

\* prisma.codeSystem.findUnique({where: {url}, include: {concepts: ...}}):
\* the CodeSystem rows with that url (none is null), each with its matching
\* concepts, ordered and cut.
findCodeSystemConcepts(url, search, includeDesignations, limit) ==
    LET systems == SelectSeq(codeSystems, LAMBDA cs : cs.url = url)
        Found(cs) ==
            take(orderByDisplayCode(
                     SelectSeq(cs.concepts,
                               LAMBDA c : conceptMatches(c, search, includeDesignations))),
                 limit)
    IN  [i \in 1..Len(systems) |->
            [url |-> systems[i].url, name |-> systems[i].name,
             concepts |-> Found(systems[i])]]

\* Mutation: elements of equal score come out in reverse order.
scorePlaceTiesReversed(results, i) ==
    1 + Cardinality({j \in DOMAIN results :
            \/ results[j].score > results[i].score
            \/ results[j].score = results[i].score /\ j > i})

\* The place of results[i] after the sort by descending score: behind every
\* element of higher score and, the sort being stable, behind the elements
\* of equal score that were pushed before it.
scorePlace(results, i) ==
    1 + Cardinality({j \in DOMAIN results :
            \/ results[j].score > results[i].score
            \/ results[j].score = results[i].score /\ j < i})

\* results.sort((a, b) => b.score - a.score)
sortByScore(results) ==
    LET Places(r) == SubSeq([i \in 1..Len(r) |-> scorePlace(r, i)], 1, Len(r))
        Sorted(r, place) ==
            [k \in 1..Len(r) |-> r[CHOOSE i \in 1..Len(r) : place[i] = k]]
    IN  CHOOSE out \in UNION {{Sorted(r, place) : place \in {Places(r)}}
                              : r \in {results}} : TRUE

\* Mutation: the sorted results are not cut.
sliceAll(results, limit) == results

\* results.slice(0, parseInt(limit))
slice(results, limit) == SubSeq(results, 1, Min(limit, Len(results)))

\* A turn of the loop over the aliases reaches the store query when the
\* alias has a (truthy) entry and no other system is asked for.
reachesQuery(req, pass) ==
    /\ systemUrls(req.systems[pass]) # NoSystem
    /\ ~(req.system # NoSystem /\ req.system # systemUrls(req.systems[pass]))

\* prisma.codeSystem.findUnique({ where: { url: systemUrl } }) is handed an
\* inherited member instead of a string: the client rejects the argument
\* and throws, and errorHandler answers 500.
findUniqueThrows(req, pass) ==
    reachesQuery(req, pass) /\ systemUrls(req.systems[pass]) \in InheritedMembers

\* The handler.  A request is [search, system, limit, includeDesignations,
\* includeMappings, systems]; limit is <<>> when omitted, systems the list of
\* trimmed lower-cased aliases.  Each match also records `pass`, the turn of
\* the loop over the aliases that pushed it.
autocomplete(req) ==
    IF ~Truthy(req.search) \/ Len(req.search) < MinSearchLength
    THEN ValidationErrorResponse
    ELSE IF \E pass \in DOMAIN req.systems : findUniqueThrows(req, pass)
    THEN InternalErrorResponse
    ELSE
    LET limit == IF req.limit = <<>> THEN DefaultLimit ELSE req.limit[1]
        Result(cs, concept, pass) ==
            [system |-> cs.url, systemName |-> cs.name, code |-> concept.code,
             display |-> concept.display, definition |-> concept.definition,
             score |-> calculateRelevanceScore(
                           [concept EXCEPT !.designations =
                               IF req.includeDesignations THEN @ ELSE <<>>],
                           req.search),
             designations |-> IF req.includeDesignations
                              THEN concept.designations ELSE <<>>,
             mappings |-> IF req.includeMappings
                          THEN findMappingsForConcept(concept.code, cs.url, NoSystem)
                          ELSE <<>>,
             pass |-> pass]
        PassResults(pass) ==
            LET systemUrl == systemUrls(req.systems[pass])
            IN  IF ~reachesQuery(req, pass) THEN <<>>
                ELSE LET found == findCodeSystemConcepts(systemUrl, req.search,
                                      req.includeDesignations, limit)
                     IN  IF found = <<>> THEN <<>>
                         ELSE [i \in 1..Len(found[1].concepts) |->
                                  Result(found[1], found[1].concepts[i], pass)]
        results == Flatten([pass \in 1..Len(req.systems) |-> PassResults(pass)])
        Answer(limitedResults) ==
            [status |-> 200, resourceType |-> "Parameters",
             result |-> Len(limitedResults) > 0,
             matchCount |-> Len(limitedResults),
             matches |-> limitedResults]
    IN  CHOOSE out \in UNION {{Answer(limitedResults)
                                  : limitedResults \in {slice(sorted, limit)}}
                              : sorted \in {sortByScore(results)}} : TRUE

\* The store queries the handler issues, in order: one findUnique for each
\* turn that reaches it and, when mappings are included, one findMany
\* (findMappingsForConcept) for each concept that query returned.  Nothing
\* follows a query that throws.
autocompleteQueries(req) ==
    IF ~Truthy(req.search) \/ Len(req.search) < MinSearchLength
    THEN <<>>
    ELSE
    LET limit == IF req.limit = <<>> THEN DefaultLimit ELSE req.limit[1]
        Thrown == {pass \in DOMAIN req.systems : findUniqueThrows(req, pass)}
        Last == IF Thrown = {} THEN Len(req.systems)
                ELSE CHOOSE pass \in Thrown : \A other \in Thrown : pass <= other
        PassQueries(pass) ==
            IF ~reachesQuery(req, pass) THEN <<>>
            ELSE IF findUniqueThrows(req, pass) THEN <<"codeSystem.findUnique">>
            ELSE LET found == findCodeSystemConcepts(systemUrls(req.systems[pass]),
                                  req.search, req.includeDesignations, limit)
                 IN  <<"codeSystem.findUnique">>
                     \o IF found = <<>> \/ ~req.includeMappings THEN <<>>
                        ELSE [i \in 1..Len(found[1].concepts) |-> "conceptMap.findMany"]
    IN  Flatten([pass \in 1..Last |-> PassQueries(pass)])

(***************************************************************************)
(* Bounded inputs.  Character codes: a 97, b 98, x 120, A 65, B 66, X 88.  *)
(***************************************************************************)
MaxDesignations == 2

RECURSIVE SeqsUpTo(_, _)
SeqsUpTo(S, n) ==
    IF n = 0 THEN {<<>>}
    ELSE LET shorter == SeqsUpTo(S, n - 1)
         IN  shorter \cup {Append(q, e) : q \in shorter, e \in S}

TermPool == {<<97, 98>>, <<65, 66>>, <<98, 120>>}               \* ab AB bx
CodePool == {<<97, 98>>, <<65, 98>>, <<120, 97, 98>>,            \* ab Ab xab
             <<97, 98, 120>>, <<120, 120>>, <<66, 88>>}          \* abx xx BX
DisplayPool == {<<>>, <<97, 98>>, <<97, 66>>, <<97, 98, 120>>,   \* null ab aB abx
                <<120, 65, 98>>, <<120, 120>>, <<98, 120, 97>>}  \* xAb xx bxa
DefinitionPool == {<<>>, <<120, 97, 98, 120>>, <<120, 120>>,     \* null xabx xx
                   <<65, 66, 120>>}                              \* ABx
DesignationValuePool == {<<97, 98>>, <<120, 97, 66>>, <<120, 120>>}  \* ab xaB xx

DesignationPool == [language : {"hi"}, value : DesignationValuePool]

ConceptPool ==
    [code : CodePool, display : DisplayPool, definition : DefinitionPool,
     designations : SeqsUpTo(DesignationPool, MaxDesignations)]

NotScored == [done |-> FALSE, score |-> 0]

(***************************************************************************)
(* Sample rows.  Codes: S1 S2 (NAMASTE), U1 (Unani), T1 T2 (ICD-11), ZZ     *)
(* unknown.                                                                *)
(***************************************************************************)
S1 == <<83, 49>>
S2 == <<83, 50>>
U1 == <<85, 49>>
T1 == <<84, 49>>
T2 == <<84, 50>>
ZZ == <<90, 90>>
Fever == <<70, 101, 118, 101, 114>>
Cough == <<67, 111, 117, 103, 104>>
NoText == <<>>

ConceptRow(code, display) ==
    [code |-> code, display |-> display, definition |-> NoText,
     designations |-> <<>>, parent |-> NoText]

FullConceptStore ==
    << [url |-> NAMASTE, name |-> "NAMASTE",
        concepts |-> <<ConceptRow(S1, Fever), ConceptRow(S2, Cough)>>],
       [url |-> ICD11_TM2, name |-> "ICD11-TM2",
        concepts |-> <<ConceptRow(T1, Fever), ConceptRow(T2, Cough)>>],
       [url |-> UNANI, name |-> "Unani",
        concepts |-> <<ConceptRow(U1, Fever), ConceptRow(S1, Cough)>>] >>

\* S1 is not a NAMASTE concept here, whatever the mapping store says of it.
PartialConceptStore ==
    << [url |-> NAMASTE, name |-> "NAMASTE", concepts |-> <<ConceptRow(S2, Cough)>>],
       [url |-> ICD11, name |-> "ICD-11", concepts |-> <<ConceptRow(T1, Fever)>>] >>

ConceptStores == {<<>>, FullConceptStore, PartialConceptStore}

Target(code, equivalence) ==
    [code |-> code, display |-> Fever, equivalence |-> equivalence, comment |-> NoText,
     dependsOn |-> <<>>]

Element(code, targets) == [code |-> code, display |-> Cough, targets |-> targets]

Group(source, target, elements) ==
    [source |-> source, target |-> target, elements |-> elements]

\* one element with two targets, one with none
NamasteToTm2 ==
    [url |-> "cm-a", sourceUri |-> NAMASTE, targetUri |-> ICD11_TM2,
     groups |-> <<Group(NAMASTE, ICD11_TM2,
                    <<Element(S1, <<Target(T1, "equivalent"), Target(T2, "wider")>>),
                      Element(S2, <<>>)>>)>>]

MapPool ==
    { NamasteToTm2,
      \* the same code in two groups, and twice in one group
      [url |-> "cm-b", sourceUri |-> NAMASTE, targetUri |-> ICD11_TM2,
       groups |-> <<Group(NAMASTE, ICD11_TM2,
                      <<Element(S1, <<Target(T1, "relatedto")>>)>>),
                    Group(NAMASTE, ICD11_TM2,
                      <<Element(S1, <<Target(T1, "narrower")>>),
                        Element(S1, <<Target(T2, "inexact")>>)>>)>>],
      \* two targets with the same code and different equivalences
      [url |-> "cm-c", sourceUri |-> UNANI, targetUri |-> ICD11_TM2,
       groups |-> <<Group(UNANI, ICD11_TM2,
                      <<Element(U1, <<Target(T2, "unmatched"), Target(T1, "wider"),
                                      Target(T1, "equivalent")>>),
                        Element(S1, <<Target(T2, "relatedto")>>)>>)>>],
      \* another target system
      [url |-> "cm-d", sourceUri |-> NAMASTE, targetUri |-> ICD11,
       groups |-> <<Group(NAMASTE, ICD11,
                      <<Element(S1, <<Target(T1, "wider")>>)>>)>>],
      \* the opposite direction
      [url |-> "cm-e", sourceUri |-> ICD11_TM2, targetUri |-> NAMASTE,
       groups |-> <<Group(ICD11_TM2, NAMASTE,
                      <<Element(T1, <<Target(S1, "narrower")>>)>>)>>],
      \* a group whose source and target differ from the map's
      [url |-> "cm-f", sourceUri |-> NAMASTE, targetUri |-> ICD11_TM2,
       groups |-> <<Group(UNANI, ICD11,
                      <<Element(U1, <<Target(T2, "equivalent")>>)>>)>>],
      \* no group
      [url |-> "cm-g", sourceUri |-> NAMASTE, targetUri |-> ICD11_TM2,
       groups |-> <<>>] }

MaxMaps == 2

\* The url of a ConceptMap is unique in the store.
MapStores ==
    {ms \in SeqsUpTo(MapPool, MaxMaps) :
        \A i, j \in DOMAIN ms : ms[i].url = ms[j].url => i = j}

RequestCodes == {S1, S2, U1, T1, T2, ZZ, NoText}
RequestSystems == {NAMASTE, UNANI, ICD11_TM2, ICD11, NoSystem}
RequestTargets == {NoSystem, ICD11_TM2, ICD11, NAMASTE}

(***************************************************************************)
(* SpecLookup: one translation request or one lookup on any store of the   *)
(* family.                                                                 *)
(***************************************************************************)
InitLookup ==
    /\ codeSystems \in ConceptStores
    /\ conceptMaps \in MapStores
    /\ handlers = NoHandlers
    /\ response = Idle
    /\ scoreArgs = [concept |-> ConceptRow(S1, Fever), term |-> Fever]
    /\ scoreResult = NotScored
    /\ rateLimitStore = NoLimiter
    /\ limiterArgs = <<>>
    /\ clock = 0
    /\ passed = NoLimiter
    /\ clinical = NoClinical
    /\ env = NoEnv

Translate ==
    \E code \in RequestCodes, system \in RequestSystems, target \in RequestTargets :
        /\ response = Idle
        /\ response' = [op |-> "translate", code |-> code, system |-> system,
                        target |-> target, answer |-> translate(code, system, target)]
        /\ UNCHANGED <<store, handlers, scoreArgs, records, scoreResult, limiter>>

ForwardLookup ==
    \E code \in RequestCodes \ {NoText}, system \in RequestSystems \ {NoSystem},
       target \in RequestTargets :
        /\ response = Idle
        /\ response' = [op |-> "forward", code |-> code, system |-> system,
                        target |-> target,
                        answer |-> findMappingsForConcept(code, system, target)]
        /\ UNCHANGED <<store, handlers, scoreArgs, records, scoreResult, limiter>>

ReverseLookup ==
    \E code \in RequestCodes \ {NoText}, system \in RequestSystems \ {NoSystem} :
        /\ response = Idle
        /\ response' = [op |-> "reverse", code |-> code, system |-> system,
                        answer |-> findReverseMappingsForConcept(code, system)]
        /\ UNCHANGED <<store, handlers, scoreArgs, records, scoreResult, limiter>>

ConceptMapTranslate ==
    \E id \in 1..(Len(conceptMaps) + 1), code \in RequestCodes,
       system \in {NAMASTE, UNANI, NoSystem} :
        /\ response = Idle
        /\ response' = [op |-> "mapTranslate", id |-> id, code |-> code,
                        system |-> system,
                        answer |-> conceptMapTranslate(id, code, system)]
        /\ UNCHANGED <<store, handlers, scoreArgs, records, scoreResult, limiter>>

DualCodeRequests ==
    [namasteCode : RequestCodes, icd11Code : RequestCodes, includeDetails : BOOLEAN]

DualCodeLookup ==
    \E req \in DualCodeRequests :
        /\ response = Idle
        /\ response' = [op |-> "dual", request |-> req,
                        queries |-> dualCodeLookupQueries(req),
                        answer |-> dualCodeLookup(req)]
        /\ UNCHANGED <<store, handlers, scoreArgs, records, scoreResult, limiter>>

NextLookup ==
    \/ Translate
    \/ ForwardLookup
    \/ ReverseLookup
    \/ DualCodeLookup
    \/ ConceptMapTranslate

SpecLookup == InitLookup /\ [][NextLookup]_vars

(***************************************************************************)
(* Case-insensitive relations between a text and a term, stated character  *)
(* by character (the claims' vocabulary).                                  *)
(***************************************************************************)
SameLetter(c, d) == toLowerChar(c) = toLowerChar(d)

EqualsCI(s, t) ==
    Len(s) = Len(t) /\ \A i \in 1..Len(t) : SameLetter(s[i], t[i])

StartsWithCI(s, t) ==
    Len(t) <= Len(s) /\ \A i \in 1..Len(t) : SameLetter(s[i], t[i])

ContainsCI(s, t) ==
    \E k \in 0..(Len(s) - Len(t)) : \A i \in 1..Len(t) : SameLetter(s[k + i], t[i])

(***************************************************************************)
(* The mapping data as the claims speak of it: paths into the stored tree. *)
(***************************************************************************)
\* <<m, g, e>>: element e of group g of ConceptMap m
ElementPaths ==
    UNION { UNION { { <<m, g, e>> : e \in DOMAIN conceptMaps[m].groups[g].elements }
                    : g \in DOMAIN conceptMaps[m].groups }
            : m \in DOMAIN conceptMaps }

ElementAt(p) == conceptMaps[p[1]].groups[p[2]].elements[p[3]]

\* <<m, g, e, t>>: target t of that element
TargetPaths ==
    UNION { { <<p[1], p[2], p[3], t>> : t \in DOMAIN ElementAt(p).targets }
            : p \in ElementPaths }

TargetAt(p) == ElementAt(p).targets[p[4]]

\* The stored targets a forward lookup of (code, system, target) is about.
ForwardPaths(code, system, target) ==
    {p \in TargetPaths :
        /\ conceptMaps[p[1]].sourceUri = system
        /\ (target # NoSystem => conceptMaps[p[1]].targetUri = target)
        /\ ElementAt(p).code = code}

\* The stored elements a reverse lookup of (code, system) is about.
ReversePaths(code, system) ==
    {p \in ElementPaths :
        /\ conceptMaps[p[1]].targetUri = system
        /\ \E t \in DOMAIN ElementAt(p).targets : ElementAt(p).targets[t].code = code}

KnownCode(code, system) ==
    \E i \in DOMAIN codeSystems :
        /\ codeSystems[i].url = system
        /\ \E j \in DOMAIN codeSystems[i].concepts : codeSystems[i].concepts[j].code = code

\* The sequence `edges` holds, with multiplicity, exactly At(p) for p \in P.
OnePerPath(edges, P, At(_)) ==
    /\ Len(edges) = Cardinality(P)
    /\ \A p \in P :
          Cardinality({i \in DOMAIN edges : edges[i] = At(p)})
              = Cardinality({q \in P : At(q) = At(p)})

TranslateAnswered ==
    /\ response.op = "translate"
    /\ Truthy(response.code)
    /\ response.system # NoSystem

\* C1 (as claimed): translating a code that exists in the source system but
\* has no mapping edge answers found=true with the source coding and an
\* empty list of matches.
C1_KnownUnmappedFoundTrue ==
    (/\ TranslateAnswered
     /\ KnownCode(response.code, response.system)
     /\ ForwardPaths(response.code, response.system, response.target) = {})
    => /\ response.answer.status = 200
       /\ response.answer.result = TRUE
       /\ Len(response.answer.source) = 1
       /\ response.answer.source[1].code = response.code
       /\ response.answer.matches = <<>>

\* C1 (amended): translating a code that exists in the source system but has
\* no mapping edge is a normal Parameters answer with result=false, no source
\* coding, no match, and the no-mappings message (not the code-not-found
\* one).
C1_KnownUnmappedResultFalse ==
    (/\ TranslateAnswered
     /\ KnownCode(response.code, response.system)
     /\ ForwardPaths(response.code, response.system, response.target) = {})
    => /\ response.answer.status = 200
       /\ response.answer.resourceType = "Parameters"
       /\ response.answer.result = FALSE
       /\ response.answer.source = <<>>
       /\ response.answer.matches = <<>>
       /\ response.answer.message = "no-mappings"

\* C1 witness: a known code whose element owns no target (S2 in cm-a) was
\* translated.
C1_Witness ==
    /\ TranslateAnswered
    /\ KnownCode(response.code, response.system)
    /\ ForwardPaths(response.code, response.system, response.target) = {}
    /\ \E p \in ElementPaths :
          /\ ElementAt(p).code = response.code
          /\ conceptMaps[p[1]].sourceUri = response.system
    /\ response.answer.message = "no-mappings"

\* C2: translating a code that is not in the source system is a normal
\* answer with found=false and no match, never NotFound, whatever the
\* mapping store holds for that code.
C2_UnknownCodeFoundFalse ==
    (TranslateAnswered /\ ~KnownCode(response.code, response.system))
    => /\ response.answer.status = 200
       /\ response.answer.resourceType = "Parameters"
       /\ response.answer.result = FALSE
       /\ response.answer.matches = <<>>

\* C2 witness: an unknown code for which the mapping store does hold edges.
C2_Witness ==
    /\ TranslateAnswered
    /\ ~KnownCode(response.code, response.system)
    /\ ForwardPaths(response.code, response.system, response.target) # {}
    /\ response.answer.result = FALSE

ForwardEdge(p) ==
    [targetSystem |-> conceptMaps[p[1]].targetUri, targetCode |-> TargetAt(p).code,
     targetDisplay |-> TargetAt(p).display, equivalence |-> TargetAt(p).equivalence,
     comment |-> TargetAt(p).comment]

\* C3: the forward lookup returns exactly one edge per target of every
\* element with the code, in every group of every ConceptMap whose sourceUri
\* is the source system (and whose targetUri is the target system when one
\* is given); an empty list when there is none.
C3_ForwardAllTargets ==
    response.op = "forward" =>
        OnePerPath(response.answer,
                   ForwardPaths(response.code, response.system, response.target),
                   ForwardEdge)

\* C3 witness: five edges, from two ConceptMaps, three groups and an element
\* with two targets.
C3_Witness ==
    /\ response.op = "forward"
    /\ Len(response.answer) = 5
    /\ Cardinality({p[1] : p \in ForwardPaths(response.code, response.system,
                                               response.target)}) = 2

FirstMatchingTarget(p, code) ==
    LET hits == {t \in DOMAIN ElementAt(p).targets : ElementAt(p).targets[t].code = code}
    IN  ElementAt(p).targets[CHOOSE t \in hits : \A u \in hits : t <= u]

ReverseEdge(p) ==
    [sourceSystem |-> conceptMaps[p[1]].sourceUri, sourceCode |-> ElementAt(p).code,
     sourceDisplay |-> ElementAt(p).display,
     equivalence |-> FirstMatchingTarget(p, response.code).equivalence]

\* C4: the reverse lookup returns exactly one edge per element, of a
\* ConceptMap whose targetUri is the target system, that owns a target with
\* the code, and none for other elements; the edge has the map's sourceUri,
\* the element's code and display and the equivalence of the element's first
\* target with that code.
C4_ReverseOnePerElement ==
    response.op = "reverse" =>
        OnePerPath(response.answer, ReversePaths(response.code, response.system),
                   ReverseEdge)

\* C4 witness: an element whose first target has another code and whose
\* second and third targets both have the requested one.
C4_Witness ==
    /\ response.op = "reverse"
    /\ \E p \in ReversePaths(response.code, response.system) :
          /\ ElementAt(p).targets[1].code # response.code
          /\ Cardinality({t \in DOMAIN ElementAt(p).targets :
                             ElementAt(p).targets[t].code = response.code}) = 2
    /\ Len(response.answer) >= 1

\* The Group that owns the element of a path.
GroupOf(p) == conceptMaps[p[1]].groups[p[2]]

\* C24 (as claimed): each edge of the forward lookup reports a target of an
\* element with the requested code in a Group whose source is the requested
\* source system, and names that Group's target system as targetSystem,
\* also when the Group's source/target differ from the map's
\* sourceUri/targetUri.
C24_EdgesFollowGroup ==
    response.op = "forward" =>
        \A i \in DOMAIN response.answer :
            \E p \in TargetPaths :
                /\ GroupOf(p).source = response.system
                /\ ElementAt(p).code = response.code
                /\ response.answer[i].targetSystem = GroupOf(p).target
                /\ response.answer[i].targetCode = TargetAt(p).code
                /\ response.answer[i].equivalence = TargetAt(p).equivalence

\* The forward edges from (x, S) towards the target system of the reverse
\* lookup that report the looked-up code.
ForwardEdgesTo(x, S) ==
    LET forward == findMappingsForConcept(x, S, response.system)
    IN  {forward[k] : k \in {k \in DOMAIN forward :
                                forward[k].targetCode = response.code}}

\* C25: forward and reverse lookup agree on which pairs are mapped: the
\* reverse lookup of (y, T) has an edge with sourceSystem S and sourceCode x
\* exactly when the forward lookup of (x, S, T) has an edge with targetCode
\* y, and the equivalence of a reverse edge is that of one of those forward
\* edges.
C25_ForwardReverseAgree ==
    response.op = "reverse" =>
        /\ \A x \in RequestCodes \ {NoText}, S \in RequestSystems \ {NoSystem} :
              (\E i \in DOMAIN response.answer :
                    /\ response.answer[i].sourceSystem = S
                    /\ response.answer[i].sourceCode = x)
                 <=> ForwardEdgesTo(x, S) # {}
        /\ \A i \in DOMAIN response.answer :
              \E edge \in ForwardEdgesTo(response.answer[i].sourceCode,
                                         response.answer[i].sourceSystem) :
                  edge.equivalence = response.answer[i].equivalence

\* C25 witness: a reverse lookup with edges from two source systems, one of
\* them from an element whose forward lookup also reports another code.
C25_Witness ==
    /\ response.op = "reverse"
    /\ \E i, j \in DOMAIN response.answer :
          /\ response.answer[i].sourceSystem # response.answer[j].sourceSystem
          /\ LET forward == findMappingsForConcept(response.answer[i].sourceCode,
                                response.answer[i].sourceSystem, response.system)
             IN  \E k \in DOMAIN forward : forward[k].targetCode # response.code

(***************************************************************************)
(* Claims about the matches of the translate operations.                   *)
(***************************************************************************)
\* The match reports a stored target: its code and its equivalence.
Carries(match, p) ==
    /\ match.targetCode = TargetAt(p).code
    /\ match.equivalence = TargetAt(p).equivalence

\* Every match of POST /fhir/terminology/$translate is a stored target of an
\* element with the requested code, in a map of the requested systems.
TranslateMatchesStored ==
    (response.op = "translate" /\ response.answer.status = 200) =>
        \A i \in DOMAIN response.answer.matches :
            \E p \in ForwardPaths(response.code, response.system, response.target) :
                Carries(response.answer.matches[i], p)

\* C16 (as claimed): every match of a translate operation, of the
\* terminology router and of a ConceptMap, carries the code and the
\* equivalence of a target stored for the requested source code; a code
\* whose element owns no target gets no match and no equivalence.
C16_MatchesAreStoredTargets ==
    /\ TranslateMatchesStored
    /\ (response.op = "mapTranslate" /\ response.answer.status = 200) =>
           \A i \in DOMAIN response.answer.matches :
               \E p \in TargetPaths :
                   /\ p[1] = response.id
                   /\ ElementAt(p).code = response.code
                   /\ Carries(response.answer.matches[i], p)

(***************************************************************************)
(* Direction of the edges.                                                 *)
(***************************************************************************)
\* The stored targets, in maps towards `system`, that have the code: the
\* edges x -> code of maps X -> system.
InboundPaths(code, system) ==
    {p \in TargetPaths :
        conceptMaps[p[1]].targetUri = system /\ TargetAt(p).code = code}

\* C17: a forward lookup of (code, S) returns edges of maps whose sourceUri
\* is S only, as many as these maps store for the code whatever is stored
\* towards S, so that no edge x -> code of a map X -> S comes back inverted;
\* the reverse lookup of (code, S) returns the element of every such edge.
C17_EdgesDirected ==
    /\ response.op = "forward" =>
           /\ \A i \in DOMAIN response.answer :
                  \E p \in TargetPaths :
                      /\ conceptMaps[p[1]].sourceUri = response.system
                      /\ ElementAt(p).code = response.code
                      /\ response.answer[i].targetSystem = conceptMaps[p[1]].targetUri
                      /\ response.answer[i].targetCode = TargetAt(p).code
                      /\ response.answer[i].equivalence = TargetAt(p).equivalence
           /\ Len(response.answer) =
                  Cardinality({p \in TargetPaths :
                      /\ conceptMaps[p[1]].sourceUri = response.system
                      /\ (response.target # NoSystem =>
                             conceptMaps[p[1]].targetUri = response.target)
                      /\ ElementAt(p).code = response.code})
    /\ response.op = "reverse" =>
           \A p \in InboundPaths(response.code, response.system) :
               \E i \in DOMAIN response.answer :
                   /\ response.answer[i].sourceSystem = conceptMaps[p[1]].sourceUri
                   /\ response.answer[i].sourceCode = ElementAt(p).code

\* C17 witness: an edge T1 -> S1 is stored in a map towards NAMASTE and in
\* no map from NAMASTE, and the forward lookup of (S1, NAMASTE) is empty.
C17_Witness ==
    /\ response.op = "forward"
    /\ response.code = S1
    /\ response.system = NAMASTE
    /\ response.target = NoSystem
    /\ InboundPaths(S1, NAMASTE) # {}
    /\ response.answer = <<>>

(***************************************************************************)
(* Claims about the dual-code lookup.                                      *)
(***************************************************************************)
DualAnswered == response.op = "dual" /\ response.answer.status = 200

\* The parameters of the answer with one of the names.
Named(names) ==
    SelectSeq(response.answer.parameter, LAMBDA q : q.name \in names)

NamasteSlot == {"namaste", "mappedIcd11Codes"}
Icd11Slot == {"icd11", "mappedNamasteCodes"}

KnownIcd11(code) == \E i \in DOMAIN icd11Systems : KnownCode(code, icd11Systems[i])

\* The first ICD-11 system that holds the code.
Icd11SystemOf(code) ==
    icd11Systems[CHOOSE i \in DOMAIN icd11Systems :
                    /\ KnownCode(code, icd11Systems[i])
                    /\ \A j \in 1..(i - 1) : ~KnownCode(code, icd11Systems[j])]

\* C13: a dual-code lookup with neither code supplied answers a validation
\* error and issues no store query.
C13_NeitherCodeRejected ==
    (/\ response.op = "dual"
     /\ ~Truthy(response.request.namasteCode)
     /\ ~Truthy(response.request.icd11Code))
        => /\ response.answer = ValidationErrorResponse
           /\ response.queries = <<>>

\* C13 witness: a lookup without codes on a store that holds concepts and
\* maps has been rejected.
C13_Witness ==
    /\ response.op = "dual"
    /\ response.request.namasteCode = NoText
    /\ response.request.icd11Code = NoText
    /\ response.answer.status = 400
    /\ codeSystems # <<>>
    /\ conceptMaps # <<>>

\* Two codes are supplied and exactly one of them is unknown.
OneCodeUnknown ==
    /\ response.op = "dual"
    /\ Truthy(response.request.namasteCode)
    /\ Truthy(response.request.icd11Code)
    /\ KnownCode(response.request.namasteCode, NAMASTE)
           # KnownIcd11(response.request.icd11Code)

UnknownSlot ==
    IF KnownCode(response.request.namasteCode, NAMASTE) THEN Icd11Slot ELSE NamasteSlot

\* The request with the unknown code left out.
KnownCodeAlone ==
    IF KnownCode(response.request.namasteCode, NAMASTE)
    THEN [response.request EXCEPT !.icd11Code = NoText]
    ELSE [response.request EXCEPT !.namasteCode = NoText]

\* C14 (as claimed): with two codes of which exactly one is unknown the
\* call succeeds, the answer carries a parameter that reports the unknown
\* code's slot as not found, and the other slot is what the lookup of the
\* known code alone returns.
C14_UnknownSlotReported ==
    OneCodeUnknown =>
        /\ response.answer.status = 200
        /\ Named(UnknownSlot) # <<>>
        /\ Named((NamasteSlot \cup Icd11Slot) \ UnknownSlot)
               = SelectSeq(dualCodeLookup(KnownCodeAlone).parameter,
                           LAMBDA q : q.name # "result")

\* With two codes of which exactly one is unknown the answer is, parameter
\* for parameter, the answer to the known code alone.
UnknownCodeIsSilent ==
    OneCodeUnknown => response.answer = dualCodeLookup(KnownCodeAlone)

\* C15: a supplied NAMASTE code has its concept and a mapped list iff it
\* exists in NAMASTE and has a forward edge, its concept without a mapped
\* list iff it exists and has none; a supplied ICD-11 code likewise, with the
\* reverse lookup on the first ICD-11 system that holds it; a code that is
\* omitted has no parameter.  A mapped list has one entry per edge.
C15_SlotsClassified ==
    DualAnswered =>
        LET a == response.request.namasteCode
            b == response.request.icd11Code
            forward == ForwardPaths(a, NAMASTE, NoSystem)
            reverse == IF KnownIcd11(b) THEN ReversePaths(b, Icd11SystemOf(b)) ELSE {}
        IN  /\ Len(Named({"namaste"})) =
                   (IF Truthy(a) /\ KnownCode(a, NAMASTE) THEN 1 ELSE 0)
            /\ Len(Named({"mappedIcd11Codes"})) =
                   (IF Truthy(a) /\ KnownCode(a, NAMASTE) /\ forward # {} THEN 1 ELSE 0)
            /\ \A i \in DOMAIN Named({"namaste"}) :
                   /\ Named({"namaste"})[i].part[1].valueCoding.code = a
                   /\ Named({"namaste"})[i].part[1].valueCoding.system = NAMASTE
            /\ \A i \in DOMAIN Named({"mappedIcd11Codes"}) :
                   Len(Named({"mappedIcd11Codes"})[i].part) = Cardinality(forward)
            /\ Len(Named({"icd11"})) =
                   (IF Truthy(b) /\ KnownIcd11(b) THEN 1 ELSE 0)
            /\ Len(Named({"mappedNamasteCodes"})) =
                   (IF Truthy(b) /\ KnownIcd11(b) /\ reverse # {} THEN 1 ELSE 0)
            /\ \A i \in DOMAIN Named({"icd11"}) :
                   /\ Named({"icd11"})[i].part[1].valueCoding.code = b
                   /\ Named({"icd11"})[i].part[1].valueCoding.system = Icd11SystemOf(b)
            /\ \A i \in DOMAIN Named({"mappedNamasteCodes"}) :
                   Len(Named({"mappedNamasteCodes"})[i].part) = Cardinality(reverse)

\* C15 witness: the NAMASTE code is mapped, the ICD-11 code is known and
\* has no reverse edge.
C15_Witness ==
    /\ DualAnswered
    /\ Len(Named({"mappedIcd11Codes"})) = 1
    /\ Len(Named({"icd11"})) = 1
    /\ Len(Named({"mappedNamasteCodes"})) = 0

\* C29 (as claimed): POST /fhir/ConceptMap/{id}/$translate reports a match
\* only when the supplied system is the source system of that ConceptMap and
\* the supplied code is the code of one of its elements; for an existing
\* ConceptMap and a request with code and system the answer is a Parameters
\* result, never an error.
C29_MatchOnlyForSourceSystem ==
    response.op = "mapTranslate" =>
        /\ (response.answer.status = 200 /\ response.answer.result) =>
              /\ response.system = conceptMaps[response.id].sourceUri
              /\ \E p \in ElementPaths :
                    p[1] = response.id /\ ElementAt(p).code = response.code
        /\ (/\ response.id \in DOMAIN conceptMaps
            /\ Truthy(response.code)
            /\ response.system # NoSystem) =>
              /\ response.answer.status = 200
              /\ response.answer.resourceType = "Parameters"

\* C26 (as claimed): in a dual-code lookup response every entry under
\* mappedIcd11Codes has an ICD-11 system as its target system and every
\* entry under mappedNamasteCodes has the NAMASTE system as its source
\* system, whatever ConceptMaps the store holds.
C26_MappedCodesOfOwnSystems ==
    DualAnswered =>
        \A i \in DOMAIN response.answer.parameter :
            LET param == response.answer.parameter[i]
            IN  /\ param.name = "mappedIcd11Codes" =>
                      \A k \in DOMAIN param.part :
                          \E u \in DOMAIN icd11Systems :
                              param.part[k].targetCode.system = icd11Systems[u]
                /\ param.name = "mappedNamasteCodes" =>
                      \A k \in DOMAIN param.part :
                          param.part[k].sourceCode.system = NAMASTE

(***************************************************************************)
(* SpecAuto: one autocomplete request on a store of searchable concepts.   *)
(* Texts: "fever", "FE", "s", "zz", " f"; displays "Fever", "Cough" and     *)
(* "A fever".                                                              *)
(***************************************************************************)
TermFever == <<102, 101, 118, 101, 114>>
TermFE == <<70, 69>>
TermS == <<115>>
TermZZ == <<122, 122>>
AFever == <<65, 32, 102, 101, 118, 101, 114>>
TermSpaceF == <<32, 102>>
S3 == <<83, 51>>
S4 == <<83, 52>>

SearchRow(code, display, definition, designationValues) ==
    [code |-> code, display |-> display, definition |-> definition,
     designations |-> [i \in DOMAIN designationValues |->
                          [language |-> "hi", value |-> designationValues[i]]],
     parent |-> NoText]

Icd11Tm2Rows ==
    [url |-> ICD11_TM2, name |-> "ICD11-TM2",
     concepts |-> <<SearchRow(T1, Fever, NoText, <<>>),
                    SearchRow(T2, Cough, AFever, <<>>)>>]

\* Rows are stored in another order than display-then-code.
SearchStore ==
    << [url |-> NAMASTE, name |-> "NAMASTE",
        concepts |-> <<SearchRow(S2, Fever, NoText, <<>>),
                       SearchRow(S1, Fever, NoText, <<>>),
                       SearchRow(S3, Cough, NoText, <<TermFever>>),
                       SearchRow(S4, AFever, AFever, <<>>)>>],
       Icd11Tm2Rows,
       [url |-> UNANI, name |-> "Unani",
        concepts |-> <<SearchRow(U1, Fever, NoText, <<>>)>>] >>

\* One concept more than a query takes: codes S01, S02, ...
LargeStore ==
    << [url |-> NAMASTE, name |-> "NAMASTE",
        concepts |-> [i \in 1..(MaxTake + 1) |->
                         SearchRow(<<83, 48 + (i \div 10), 48 + (i % 10)>>,
                                   IF i % 2 = 0 THEN Fever ELSE AFever,
                                   NoText, <<>>)]],
       Icd11Tm2Rows >>

SearchStores == {SearchStore, LargeStore}

AutocompleteRequests ==
    [search : {TermFever, TermFE, TermS, TermZZ, TermSpaceF, NoText},
     system : {NoSystem, NAMASTE},
     limit : {<<>>, <<0>>, <<1>>, <<3>>, <<MaxTake>>, <<MaxTake + 1>>, <<MaxTake + 2>>},
     includeDesignations : BOOLEAN,
     includeMappings : BOOLEAN,
     systems : {<<"namaste", "icd11-tm2", "unani">>, <<"icd11-tm2", "namaste">>,
                <<"namaste", "bogus", "namaste">>,
                <<"namaste", "constructor", "unani">>}]

InitAuto ==
    /\ codeSystems \in SearchStores
    /\ conceptMaps \in {<<>>, <<NamasteToTm2>>}
    /\ handlers = NoHandlers
    /\ response = Idle
    /\ scoreArgs = [concept |-> ConceptRow(S1, Fever), term |-> Fever]
    /\ scoreResult = NotScored
    /\ rateLimitStore = NoLimiter
    /\ limiterArgs = <<>>
    /\ clock = 0
    /\ passed = NoLimiter
    /\ clinical = NoClinical
    /\ env = NoEnv

Autocomplete ==
    \E req \in AutocompleteRequests :
        /\ response = Idle
        /\ response' = [op |-> "autocomplete", request |-> req,
                        queries |-> autocompleteQueries(req),
                        answer |-> autocomplete(req)]
        /\ UNCHANGED <<store, handlers, scoreArgs, records, scoreResult, limiter>>

NextAuto == Autocomplete

SpecAuto == InitAuto /\ [][NextAuto]_vars

(***************************************************************************)
(* Claims about autocomplete.                                              *)
(***************************************************************************)
AutocompleteAnswered ==
    /\ response.op = "autocomplete"
    /\ response.answer.status = 200

\* a precedes b in ascending text order
TextBefore(a, b) ==
    \E n \in 0..Len(a) :
        /\ n <= Len(b)
        /\ SubSeq(a, 1, n) = SubSeq(b, 1, n)
        /\ \/ n = Len(a) /\ n < Len(b)
           \/ n < Len(a) /\ n < Len(b) /\ a[n + 1] < b[n + 1]

\* a was seen before b: an earlier requested system, or the same turn and
\* earlier in the store's display-then-code order
FirstSeenBefore(a, b) ==
    \/ a.pass < b.pass
    \/ /\ a.pass = b.pass
       /\ \/ TextBefore(a.display, b.display)
          \/ a.display = b.display /\ TextBefore(a.code, b.code)

\* C6: the matches are in non-increasing score order, and matches of equal
\* score are in the order in which they were first seen (requested-system
\* order, then display-then-code order within a system).
C6_SortedStable ==
    AutocompleteAnswered =>
        LET m == response.answer.matches
        IN  \A i, j \in DOMAIN m :
                i < j => \/ m[i].score > m[j].score
                         \/ m[i].score = m[j].score /\ FirstSeenBefore(m[i], m[j])

\* C6 witness: two scores, a tie inside one system whose rows are stored in
\* another order, and a tie across systems.
C6_Witness ==
    /\ AutocompleteAnswered
    /\ codeSystems = SearchStore
    /\ LET m == response.answer.matches
       IN  /\ \E i, j \in DOMAIN m : m[i].score > m[j].score
           /\ \E i, j \in DOMAIN m :
                 /\ i < j /\ m[i].score = m[j].score /\ m[i].pass = m[j].pass
                 /\ m[i].code = S1 /\ m[j].code = S2
           /\ \E i, j \in DOMAIN m :
                 i < j /\ m[i].score = m[j].score /\ m[i].pass < m[j].pass

\* The systems a request searches, and the number M of their concepts that
\* contain the term in code, display, definition or, when enabled, a
\* designation.
SearchedSystems(req) ==
    {u \in {systemUrls(req.systems[k]) : k \in DOMAIN req.systems} :
        /\ u # NoSystem
        /\ (req.system # NoSystem => u = req.system)}

TrueMatchCount(req) ==
    Cardinality(
        {<<i, j>> \in UNION {{<<i, j>> : j \in DOMAIN codeSystems[i].concepts}
                             : i \in DOMAIN codeSystems} :
            /\ codeSystems[i].url \in SearchedSystems(req)
            /\ LET c == codeSystems[i].concepts[j]
               IN  \/ ContainsCI(c.code, req.search)
                   \/ ContainsCI(c.display, req.search)
                   \/ ContainsCI(c.definition, req.search)
                   \/ /\ req.includeDesignations
                      /\ \E d \in DOMAIN c.designations :
                            ContainsCI(c.designations[d].value, req.search)})

RequestedLimit(req) == IF req.limit = <<>> THEN DefaultLimit ELSE req.limit[1]

\* C7 (as claimed): with limit L the number n of matches satisfies n <= L and
\* n >= min(L, M).
C7_CountBetween ==
    AutocompleteAnswered =>
        LET n == Len(response.answer.matches)
            L == RequestedLimit(response.request)
        IN  n <= L /\ n >= Min(L, TrueMatchCount(response.request))

\* C7 (amended): n <= L and n >= min(L, 50, M): the per-system query takes
\* at most 50 concepts, so a limit above 50 does not promise more than 50.
C7_CountBetweenClamped ==
    AutocompleteAnswered =>
        LET n == Len(response.answer.matches)
            L == RequestedLimit(response.request)
        IN  n <= L /\ n >= Min(Min(L, MaxTake), TrueMatchCount(response.request))

\* C7 witness: one searched system holds more than 50 matching concepts and
\* the limit is above 50: exactly 50 matches are returned.
C7_Witness ==
    /\ AutocompleteAnswered
    /\ RequestedLimit(response.request) > MaxTake
    /\ TrueMatchCount(response.request) > MaxTake
    /\ Len(response.answer.matches) = MaxTake

\* C8 (as claimed): whatever limit is requested the answer has at most 50
\* matches, and at most 20 when no limit is given.
C8_AtMostFifty ==
    AutocompleteAnswered =>
        /\ Len(response.answer.matches) <= MaxTake
        /\ (response.request.limit = <<>> =>
               Len(response.answer.matches) <= DefaultLimit)

\* The score the handler gives a stored concept for a request.
ScoreFor(c, req) ==
    calculateRelevanceScore(
        [c EXCEPT !.designations = IF req.includeDesignations THEN @ ELSE <<>>],
        req.search)

\* The concepts of the searched systems that match the term and are not in
\* the response, as <<system, concept>> places of the store.
LeftOut ==
    {p \in UNION {{<<i, j>> : j \in DOMAIN codeSystems[i].concepts}
                  : i \in DOMAIN codeSystems} :
        /\ codeSystems[p[1]].url \in SearchedSystems(response.request)
        /\ conceptMatches(codeSystems[p[1]].concepts[p[2]],
                          response.request.search,
                          response.request.includeDesignations)
        /\ \A k \in DOMAIN response.answer.matches :
              ~(/\ response.answer.matches[k].system = codeSystems[p[1]].url
                /\ response.answer.matches[k].code
                      = codeSystems[p[1]].concepts[p[2]].code)}

\* C23 (as claimed): autocomplete returns the best-scoring matches: no
\* matching concept of a searched system that is left out of the response
\* scores strictly higher than a concept in the response.
C23_BestScoring ==
    AutocompleteAnswered =>
        \A p \in LeftOut :
            \A k \in DOMAIN response.answer.matches :
                ScoreFor(codeSystems[p[1]].concepts[p[2]], response.request)
                    <= response.answer.matches[k].score

\* Leading and trailing white space (space, tab, line feed, carriage return)
\* removed.
WhiteSpace == {9, 10, 13, 32}
Trimmed(s) ==
    LET Inked == {i \in DOMAIN s : s[i] \notin WhiteSpace}
    IN  IF Inked = {} THEN <<>>
        ELSE SubSeq(s, CHOOSE i \in Inked : \A j \in Inked : i <= j,
                       CHOOSE i \in Inked : \A j \in Inked : i >= j)

\* A search term of fewer than 2 characters as received is rejected before
\* any store query.
ShortRawSearchRejected ==
    (response.op = "autocomplete"
     /\ Len(response.request.search) < MinSearchLength)
        => /\ response.answer = ValidationErrorResponse
           /\ response.queries = <<>>

\* C11 (as claimed): autocomplete answers a validation error, without any
\* store query, for every search term that is absent or has fewer than 2
\* characters once leading and trailing white space is trimmed.
C11_ShortTrimmedSearchRejected ==
    (response.op = "autocomplete"
     /\ Len(Trimmed(response.request.search)) < MinSearchLength)
        => /\ response.answer = ValidationErrorResponse
           /\ response.queries = <<>>

\* The aliases the alias table lists.
KnownAliases == {"namaste", "unani", "icd11-tm2", "icd11"}

WithoutUnknownAliases(req) ==
    [req EXCEPT !.systems = SelectSeq(@, LAMBDA alias : alias \in KnownAliases)]

\* The matches of an answer, without the turn of the loop that pushed them.
MatchesOf(answer) ==
    [i \in DOMAIN answer.matches |-> [answer.matches[i] EXCEPT !.pass = 0]]

\* C12 (as claimed): a request whose systems list holds unknown aliases
\* succeeds and returns the matches of the same request without them.
C12_UnknownAliasesSkipped ==
    (/\ response.op = "autocomplete"
     /\ response.answer # ValidationErrorResponse
     /\ \E i \in DOMAIN response.request.systems :
            response.request.systems[i] \notin KnownAliases)
        => /\ response.answer.status = 200
           /\ MatchesOf(response.answer) =
                  MatchesOf(autocomplete(WithoutUnknownAliases(response.request)))

\* Unknown aliases that name no inherited member are skipped.
PlainUnknownAliasesSkipped ==
    (/\ response.op = "autocomplete"
     /\ response.answer # ValidationErrorResponse
     /\ \E i \in DOMAIN response.request.systems :
            response.request.systems[i] \notin KnownAliases
     /\ \A i \in DOMAIN response.request.systems :
            systemUrls(response.request.systems[i]) \notin InheritedMembers)
        => /\ response.answer.status = 200
           /\ MatchesOf(response.answer) =
                  MatchesOf(autocomplete(WithoutUnknownAliases(response.request)))

(***************************************************************************)
(* SpecStoreFailure: one request to the terminology router, its store      *)
(* queries awaited one after the other, each of which may throw.  The      *)
(* handlers catch nothing: asyncHandler passes what is thrown to           *)
(* errorHandler.  handlers[1] is the handler: the request, the queries it  *)
(* has awaited (log) and, once it has answered, its answer.                *)
(***************************************************************************)
StoreErrors == {"unknown", "P-other"}

TerminologyRequests ==
    {[op |-> "autocomplete", request |-> req] :
        req \in [search : {TermFever, TermS}, system : {NoSystem},
                 limit : {<<>>, <<1>>}, includeDesignations : {TRUE},
                 includeMappings : BOOLEAN,
                 systems : {<<"namaste", "icd11-tm2", "unani">>, <<"bogus", "unani">>}]}
    \cup {[op |-> "translate", request |-> req] :
        req \in [code : {S1, ZZ, NoText}, system : {NAMASTE}, target : {NoSystem, ICD11}]}
    \cup {[op |-> "dual", request |-> req] :
        req \in [namasteCode : {S1, ZZ, NoText}, icd11Code : {T1, ZZ, NoText},
                 includeDetails : {TRUE}]}

\* The queries the handler of a request issues when none of them throws.
queriesOf(r) ==
    CASE r.op = "autocomplete" -> autocompleteQueries(r.request)
      [] r.op = "translate" ->
           translateQueries(r.request.code, r.request.system, r.request.target)
      [] r.op = "dual" -> dualCodeLookupQueries(r.request)

\* The answer of the handler when none of its queries throws.
answerOf(r) ==
    CASE r.op = "autocomplete" -> autocomplete(r.request)
      [] r.op = "translate" ->
           translate(r.request.code, r.request.system, r.request.target)
      [] r.op = "dual" -> dualCodeLookup(r.request)

InitStoreFailure ==
    /\ codeSystems = SearchStore
    /\ conceptMaps \in {<<>>, <<NamasteToTm2>>}
    /\ handlers = <<[pc |-> "idle"]>>
    /\ response = Idle
    /\ scoreArgs = [concept |-> ConceptRow(S1, Fever), term |-> Fever]
    /\ scoreResult = NotScored
    /\ rateLimitStore = NoLimiter
    /\ limiterArgs = <<>>
    /\ clock = 0
    /\ passed = NoLimiter
    /\ clinical = NoClinical
    /\ env = NoEnv

\* The request reaches its handler.
Receive ==
    \E r \in TerminologyRequests :
        /\ handlers[1].pc = "idle"
        /\ handlers' = <<[pc |-> "running", op |-> r.op, request |-> r.request,
                          queries |-> queriesOf(r), log |-> <<>>]>>
        /\ UNCHANGED <<store, response, scoreArgs, records, scoreResult, limiter>>

\* Mutation: a query leaves its table empty.
afterQueryEmptied(query, rows) == <<>>

\* A table of the store once the query has run on it: the three queries of
\* the terminology handlers are Prisma reads, which return rows and write
\* none.
afterQuery(query, rows) ==
    CASE query = "codeSystem.findUnique" -> rows
      [] query = "codeSystemConcept.findFirst" -> rows
      [] query = "conceptMap.findMany" -> rows

\* The awaited query runs and resolves, and the handler goes on.
QueryResolves ==
    /\ handlers[1].pc = "running"
    /\ Len(handlers[1].log) < Len(handlers[1].queries)
    /\ LET query == handlers[1].queries[Len(handlers[1].log) + 1]
       IN  /\ handlers' = [handlers EXCEPT ![1].log =
                              Append(@, [query |-> query, outcome |-> "resolved"])]
           /\ codeSystems' = afterQuery(query, codeSystems)
           /\ conceptMaps' = afterQuery(query, conceptMaps)
    /\ UNCHANGED <<response, scoreArgs, records, scoreResult, limiter>>

\* The awaited query rejects: the handler's promise rejects, asyncHandler
\* passes the error to errorHandler, which answers.
QueryRejects ==
    \E err \in StoreErrors :
        /\ handlers[1].pc = "running"
        /\ Len(handlers[1].log) < Len(handlers[1].queries)
        /\ handlers' = [handlers EXCEPT
                           ![1].log = Append(@, [query |-> handlers[1].queries[Len(@) + 1],
                                                 outcome |-> err]),
                           ![1].pc = "done"]
        /\ response' = [op |-> handlers[1].op, request |-> handlers[1].request,
                        answer |-> errorHandler(err)]
        /\ UNCHANGED <<store, scoreArgs, records, scoreResult, limiter>>

\* Every query has resolved (or the request is invalid): res.json(...), or
\* the ValidationError through errorHandler.
Answer ==
    /\ handlers[1].pc = "running"
    /\ Len(handlers[1].log) = Len(handlers[1].queries)
    /\ handlers' = [handlers EXCEPT ![1].pc = "done"]
    /\ response' = [op |-> handlers[1].op, request |-> handlers[1].request,
                    answer |-> answerOf(handlers[1])]
    /\ UNCHANGED <<store, scoreArgs, records, scoreResult, limiter>>

NextStoreFailure == Receive \/ QueryResolves \/ QueryRejects \/ Answer

SpecStoreFailure == InitStoreFailure /\ [][NextStoreFailure]_vars

Rejected(entry) == entry.outcome \in StoreErrors

\* C18: once a store query of autocomplete, translate or dual-code lookup
\* has failed, the failed query is the last the handler issues (it is not
\* retried and nothing follows it) and the answer, when there is one, is an
\* OperationOutcome of status 400 or more, never a success.
C18_StoreFailureSurfaces ==
    \A k \in DOMAIN handlers :
        (handlers[k].pc # "idle"
         /\ \E i \in DOMAIN handlers[k].log : Rejected(handlers[k].log[i]))
            => /\ Rejected(handlers[k].log[Len(handlers[k].log)])
               /\ Cardinality({i \in DOMAIN handlers[k].log :
                                   Rejected(handlers[k].log[i])}) = 1
               /\ handlers[k].pc = "done"
               /\ response # Idle
               /\ response.answer.resourceType = "OperationOutcome"
               /\ response.answer.status >= 400

\* C18 witness: an autocomplete whose third query, of six or more, has
\* failed after two had resolved.
C18_Witness ==
    /\ handlers[1].pc = "done"
    /\ handlers[1].op = "autocomplete"
    /\ Len(handlers[1].queries) >= 6
    /\ Len(handlers[1].log) = 3
    /\ Rejected(handlers[1].log[3])
    /\ response.answer.status >= 400

\* C22: autocomplete, translate and dual-code lookup are read-only: no step
\* of their handlers, whatever the arguments and whether the queries
\* resolve or reject, changes the Concept Store or the Mapping Store.
C22_ReadOnly ==
    [][codeSystems' = codeSystems /\ conceptMaps' = conceptMaps]_vars

\* C22 witness: a dual-code lookup has run its three queries and answered.
C22_Witness ==
    /\ handlers[1].pc = "done"
    /\ handlers[1].op = "dual"
    /\ Len(handlers[1].log) >= 3
    /\ \A i \in DOMAIN handlers[1].log : ~Rejected(handlers[1].log[i])
    /\ response.answer.status = 200
    /\ conceptMaps # <<>>

(***************************************************************************)
(* SpecScore: the scorer applied to every concept and term of the pools.   *)
(***************************************************************************)
InitScore ==
    /\ scoreArgs \in [concept : ConceptPool, term : TermPool]
    /\ scoreResult = NotScored
    /\ rateLimitStore = NoLimiter
    /\ limiterArgs = <<>>
    /\ clock = 0
    /\ passed = NoLimiter
    /\ clinical = NoClinical
    /\ env = NoEnv
    /\ codeSystems = <<>>
    /\ conceptMaps = <<>>
    /\ handlers = NoHandlers
    /\ response = Idle

Score ==
    /\ ~scoreResult.done
    /\ scoreResult' =
           [done |-> TRUE,
            score |-> calculateRelevanceScore(scoreArgs.concept, scoreArgs.term)]
    /\ UNCHANGED <<scoreArgs, records, store, handlers, response, limiter>>

NextScore == Score

SpecScore == InitScore /\ [][NextScore]_vars

StatedScore(c, t) ==
    (IF EqualsCI(c.code, t) THEN 100 ELSE IF ContainsCI(c.code, t) THEN 50 ELSE 0)
    + (IF EqualsCI(c.display, t) THEN 90
       ELSE IF StartsWithCI(c.display, t) THEN 70
       ELSE IF ContainsCI(c.display, t) THEN 40 ELSE 0)
    + (IF ContainsCI(c.definition, t) THEN 20 ELSE 0)
    + 60 * Cardinality({i \in DOMAIN c.designations :
                          EqualsCI(c.designations[i].value, t)})
    + 30 * Cardinality({i \in DOMAIN c.designations :
                          /\ ~EqualsCI(c.designations[i].value, t)
                          /\ ContainsCI(c.designations[i].value, t)})

\* C9: calculateRelevanceScore(concept, term) is the sum of the code part
\* (100 equal, else 50 contained), the display part (90 equal, else 70
\* prefix, else 40 contained), 20 for a definition containing the term, and
\* per designation 60 for an equal value, else 30 for a containing one, all
\* case-insensitive; it is a function of (concept, term) alone.
C9_ScoreIsStatedSum ==
    scoreResult.done =>
        scoreResult.score = StatedScore(scoreArgs.concept, scoreArgs.term)

\* C9 witness: code and display equal the term up to case, the definition
\* contains it, one designation equals it and another contains it.
C9_Witness ==
    /\ scoreResult.done
    /\ scoreResult.score = 100 + 90 + 20 + 60 + 30
    /\ Len(scoreArgs.concept.designations) = 2

AnyFieldContains(c, t) ==
    \/ ContainsCI(c.code, t)
    \/ ContainsCI(c.display, t)
    \/ ContainsCI(c.definition, t)
    \/ \E i \in DOMAIN c.designations : ContainsCI(c.designations[i].value, t)

\* C10: the score is never negative, and it is 0 exactly when none of code,
\* display, definition and designation values contains the term
\* (case-insensitively).
C10_ScoreZeroIffNoMatch ==
    scoreResult.done =>
        /\ scoreResult.score >= 0
        /\ (scoreResult.score = 0)
               <=> ~AnyFieldContains(scoreArgs.concept, scoreArgs.term)

\* C10 witness: a concept with every field present and none containing the
\* term scores 0.
C10_Witness ==
    /\ scoreResult.done
    /\ scoreResult.score = 0
    /\ Truthy(scoreArgs.concept.display)
    /\ Truthy(scoreArgs.concept.definition)
    /\ Len(scoreArgs.concept.designations) > 0

(***************************************************************************)
(* POST /fhir/CodeSystem and POST /fhir/ConceptMap: the parent row and     *)
(* every child row are written by separate store calls, one after the      *)
(* other, with no transaction around them.  The id of a row is its index.  *)
(***************************************************************************)
MaxClients == 2
Clients == 1..MaxClients

RECURSIVE conceptCount(_)
conceptCount(concept) ==
    LET RECURSIVE Sum(_)
        Sum(children) ==
            IF children = <<>> THEN 0
            ELSE conceptCount(Head(children)) + Sum(Tail(children))
    IN  1 + Sum(concept.concept)

\* createConceptRecursive(codeSystemId, concept): the store calls it makes,
\* in order, when the concept becomes row `index` of its CodeSystem.
RECURSIVE createConceptRecursive(_, _)
createConceptRecursive(concept, index) ==
    LET RECURSIVE Children(_, _)
        Children(children, next) ==
            IF children = <<>> THEN <<>>
            ELSE createConceptRecursive(Head(children), next)
                 \o <<[op |-> "parent", child |-> next, parent |-> index]>>
                 \o Children(Tail(children), next + conceptCount(Head(children)))
    IN  <<[op |-> "concept",
           row |-> [code |-> concept.code, display |-> concept.display,
                    definition |-> concept.definition, designations |-> <<>>,
                    parent |-> NoText]]>>
        \o [d \in 1..Len(concept.designation) |->
               [op |-> "designation", concept |-> index, row |-> concept.designation[d]]]
        \o Children(concept.concept, index + 1)

\* The loop over codeSystemData.concept.
RECURSIVE createConcepts(_, _)
createConcepts(concepts, next) ==
    IF concepts = <<>> THEN <<>>
    ELSE createConceptRecursive(Head(concepts), next)
         \o createConcepts(Tail(concepts), next + conceptCount(Head(concepts)))

\* createElementRecursive(groupId, element) as element e of group g.
createElementRecursive(element, g, e) ==
    <<[op |-> "element", group |-> g,
       row |-> [code |-> element.code, display |-> element.display, targets |-> <<>>]]>>
    \o Flatten([t \in 1..Len(element.target) |->
          <<[op |-> "target", group |-> g, element |-> e,
             row |-> [code |-> element.target[t].code,
                      display |-> element.target[t].display,
                      equivalence |-> IF element.target[t].equivalence = ""
                                      THEN "equivalent"
                                      ELSE element.target[t].equivalence,
                      comment |-> element.target[t].comment,
                      dependsOn |-> <<>>]]>>
          \o [d \in 1..Len(element.target[t].dependsOn) |->
                 [op |-> "dependsOn", group |-> g, element |-> e, target |-> t,
                  row |-> element.target[t].dependsOn[d]]]])

\* createGroupRecursive(conceptMapId, group) as group g of the map.
createGroupRecursive(group, g) ==
    <<[op |-> "group",
       row |-> [source |-> group.source, target |-> group.target, elements |-> <<>>]]>>
    \o Flatten([e \in 1..Len(group.element) |->
                   createElementRecursive(group.element[e], g, e)])

\* The loop over conceptMapData.group.
createGroups(groups) ==
    Flatten([g \in 1..Len(groups) |-> createGroupRecursive(groups[g], g)])

\* One store call of the list, on the CodeSystem with the given id.
writeCodeSystem(id, w) ==
    CASE w.op = "concept" ->
           [codeSystems EXCEPT ![id].concepts = Append(@, w.row)]
      [] w.op = "designation" ->
           [codeSystems EXCEPT ![id].concepts[w.concept].designations =
               Append(@, w.row)]
      [] w.op = "parent" ->
           [codeSystems EXCEPT ![id].concepts[w.child].parent =
               codeSystems[id].concepts[w.parent].code]

\* One store call of the list, on the ConceptMap with the given id.
writeConceptMap(id, w) ==
    CASE w.op = "group" ->
           [conceptMaps EXCEPT ![id].groups = Append(@, w.row)]
      [] w.op = "element" ->
           [conceptMaps EXCEPT ![id].groups[w.group].elements = Append(@, w.row)]
      [] w.op = "target" ->
           [conceptMaps EXCEPT
               ![id].groups[w.group].elements[w.element].targets = Append(@, w.row)]
      [] w.op = "dependsOn" ->
           [conceptMaps EXCEPT
               ![id].groups[w.group].elements[w.element].targets[w.target].dependsOn =
                   Append(@, w.row)]

\* Mutation: no row is ever found with the url.
urlExistsNever(rows, url) == FALSE

\* A row with the url is in the table: what findUnique({ where: { url } })
\* finds, and what the unique index on url rejects.
urlExists(rows, url) == \E i \in DOMAIN rows : rows[i].url = url

(***************************************************************************)
(* Request bodies.                                                         *)
(***************************************************************************)
ConceptBody(code, display, designation, children) ==
    [code |-> code, display |-> display, definition |-> NoText,
     designation |-> designation, concept |-> children]

CodeSystemBodies ==
    { [resourceType |-> "CodeSystem", url |-> NAMASTE, name |-> "NAMASTE",
       concept |-> <<ConceptBody(S1, Fever, <<[language |-> "hi", value |-> Cough]>>,
                                 <<ConceptBody(S2, Cough, <<>>, <<>>)>>)>>],
      [resourceType |-> "CodeSystem", url |-> ICD11_TM2, name |-> "ICD11-TM2",
       concept |-> <<ConceptBody(T1, Fever, <<>>, <<>>)>>],
      [resourceType |-> "CodeSystem", url |-> UNANI, name |-> "Unani",
       concept |-> <<>>],
      [resourceType |-> "CodeSystem", url |-> NoSystem, name |-> "no url",
       concept |-> <<>>] }

TargetBody(code, equivalence, dependsOn) ==
    [code |-> code, display |-> Fever, equivalence |-> equivalence,
     comment |-> NoText, dependsOn |-> dependsOn]

ConceptMapBodies ==
    { [resourceType |-> "ConceptMap", url |-> "cm-a", sourceUri |-> NAMASTE,
       targetUri |-> ICD11_TM2,
       group |-> <<[source |-> NAMASTE, target |-> ICD11_TM2,
                    element |-> <<[code |-> S1, display |-> Fever,
                                   target |-> <<TargetBody(T1, "",
                                                   <<[property |-> "p", value |-> "v"]>>),
                                                TargetBody(T2, "wider", <<>>)>>]>>]>>],
      [resourceType |-> "ConceptMap", url |-> "cm-g", sourceUri |-> NAMASTE,
       targetUri |-> ICD11, group |-> <<>>],
      [resourceType |-> "ConceptMap", url |-> NoSystem, sourceUri |-> NAMASTE,
       targetUri |-> ICD11_TM2, group |-> <<>>] }

(***************************************************************************)
(* Spec: clients post CodeSystems and ConceptMaps, store calls interleave  *)
(* and may fail, and a reader reads a resource by id.                      *)
(***************************************************************************)
Init ==
    /\ codeSystems = <<>>
    /\ conceptMaps = <<>>
    /\ handlers = [c \in Clients |-> [pc |-> "idle"]]
    /\ response = Idle
    /\ scoreArgs = [concept |-> ConceptRow(S1, Fever), term |-> Fever]
    /\ scoreResult = NotScored
    /\ rateLimitStore = NoLimiter
    /\ limiterArgs = <<>>
    /\ clock = 0
    /\ passed = NoLimiter
    /\ clinical = NoClinical
    /\ env = NoEnv

\* The handler answers.  created is the id of the parent row the handler
\* has created, 0 when it has created none.
Finish(c, body, created, answer) ==
    handlers' = [handlers EXCEPT ![c] =
                    [pc |-> "done", body |-> body, created |-> created,
                     answer |-> answer]]

\* The request arrives: the url is validated and the look-up of an
\* existing resource with that url is sent to the store.
Post(c) ==
    \E body \in CodeSystemBodies \cup ConceptMapBodies :
        /\ handlers[c].pc = "idle"
        /\ IF body.url = NoSystem
           THEN Finish(c, body, 0, ValidationErrorResponse)
           ELSE handlers' = [handlers EXCEPT ![c] = [pc |-> "check", body |-> body]]
        /\ UNCHANGED <<store, response, scoreArgs, records, scoreResult, limiter>>

\* findUnique({ where: { url } }) answers.
CheckExisting(c) ==
    /\ handlers[c].pc = "check"
    /\ LET body == handlers[c].body
           rows == IF body.resourceType = "CodeSystem" THEN codeSystems ELSE conceptMaps
       IN  IF urlExists(rows, body.url)
           THEN Finish(c, body, 0, ValidationErrorResponse)
           ELSE handlers' = [handlers EXCEPT ![c].pc = "create"]
    /\ UNCHANGED <<store, response, scoreArgs, records, scoreResult, limiter>>

\* prisma.codeSystem.create / prisma.conceptMap.create: the parent row.  The
\* url column is unique (it is a findUnique key), so a row that appeared
\* since the check makes the call fail with P2002.
CreateParent(c) ==
    /\ handlers[c].pc = "create"
    /\ LET body == handlers[c].body
       IN  IF body.resourceType = "CodeSystem"
           THEN IF urlExists(codeSystems, body.url)
                THEN Finish(c, body, 0, DuplicateKeyResponse) /\ UNCHANGED store
                ELSE /\ codeSystems' = Append(codeSystems,
                            [url |-> body.url, name |-> body.name, concepts |-> <<>>])
                     /\ handlers' = [handlers EXCEPT ![c] =
                            [pc |-> "write", body |-> body,
                             id |-> Len(codeSystems) + 1,
                             todo |-> createConcepts(body.concept, 1)]]
                     /\ UNCHANGED conceptMaps
           ELSE IF urlExists(conceptMaps, body.url)
                THEN Finish(c, body, 0, DuplicateKeyResponse) /\ UNCHANGED store
                ELSE /\ conceptMaps' = Append(conceptMaps,
                            [url |-> body.url, sourceUri |-> body.sourceUri,
                             targetUri |-> body.targetUri, groups |-> <<>>])
                     /\ handlers' = [handlers EXCEPT ![c] =
                            [pc |-> "write", body |-> body,
                             id |-> Len(conceptMaps) + 1,
                             todo |-> createGroups(body.group)]]
                     /\ UNCHANGED codeSystems
    /\ UNCHANGED <<response, scoreArgs, records, scoreResult, limiter>>

\* The next store call of createConceptRecursive / createGroupRecursive.
WriteChild(c) ==
    /\ handlers[c].pc = "write"
    /\ handlers[c].todo # <<>>
    /\ LET h == handlers[c]
       IN  /\ IF h.body.resourceType = "CodeSystem"
              THEN /\ codeSystems' = writeCodeSystem(h.id, Head(h.todo))
                   /\ UNCHANGED conceptMaps
              ELSE /\ conceptMaps' = writeConceptMap(h.id, Head(h.todo))
                   /\ UNCHANGED codeSystems
           /\ handlers' = [handlers EXCEPT ![c].todo = Tail(h.todo)]
    /\ UNCHANGED <<response, scoreArgs, records, scoreResult, limiter>>

\* A store call of the creation throws (the store is unreachable, or it
\* rejects the row): asyncHandler passes the error to errorHandler and the
\* rows written so far stay.
StoreCallFails(c) ==
    /\ \/ handlers[c].pc = "create"
       \/ handlers[c].pc = "write" /\ handlers[c].todo # <<>>
    /\ Finish(c, handlers[c].body,
              IF handlers[c].pc = "write" THEN handlers[c].id ELSE 0,
              InternalErrorResponse)
    /\ UNCHANGED <<store, response, scoreArgs, records, scoreResult, limiter>>

\* The created resource is read back and returned with 201.
Respond(c) ==
    /\ handlers[c].pc = "write"
    /\ handlers[c].todo = <<>>
    /\ LET h == handlers[c]
       IN  Finish(c, h.body, h.id, [status |-> 201, resourceType |-> h.body.resourceType,
                      resource |-> IF h.body.resourceType = "CodeSystem"
                                   THEN codeSystems[h.id] ELSE conceptMaps[h.id]])
    /\ UNCHANGED <<store, response, scoreArgs, records, scoreResult, limiter>>

\* GET /fhir/CodeSystem/:id
ReadCodeSystem ==
    \E id \in 1..(Len(codeSystems) + 1) :
        /\ response = Idle
        /\ response' = [op |-> "readCodeSystem", id |-> id,
                        answer |-> IF id \in DOMAIN codeSystems
                                   THEN [status |-> 200, resource |-> codeSystems[id]]
                                   ELSE NotFoundResponse]
        /\ UNCHANGED <<store, handlers, scoreArgs, records, scoreResult, limiter>>

\* GET /fhir/ConceptMap/:id
ReadConceptMap ==
    \E id \in 1..(Len(conceptMaps) + 1) :
        /\ response = Idle
        /\ response' = [op |-> "readConceptMap", id |-> id,
                        answer |-> IF id \in DOMAIN conceptMaps
                                   THEN [status |-> 200, resource |-> conceptMaps[id]]
                                   ELSE NotFoundResponse]
        /\ UNCHANGED <<store, handlers, scoreArgs, records, scoreResult, limiter>>

Next ==
    \/ \E c \in Clients :
          \/ Post(c)
          \/ CheckExisting(c)
          \/ CreateParent(c)
          \/ WriteChild(c)
          \/ StoreCallFails(c)
          \/ Respond(c)
    \/ ReadCodeSystem
    \/ ReadConceptMap

Spec == Init /\ [][Next]_vars

(***************************************************************************)
(* Creation claims.                                                        *)
(***************************************************************************)
\* The concept rows of a submitted concept list, complete: every concept
\* with its designations, children after their parent and naming it.
RECURSIVE SubmittedConcepts(_, _)
SubmittedConcepts(concepts, parent) ==
    IF concepts = <<>> THEN <<>>
    ELSE LET concept == Head(concepts)
         IN  <<[code |-> concept.code, display |-> concept.display,
                definition |-> concept.definition,
                designations |-> concept.designation, parent |-> parent]>>
             \o SubmittedConcepts(concept.concept, concept.code)
             \o SubmittedConcepts(Tail(concepts), parent)

SubmittedCodeSystem(body) ==
    [url |-> body.url, name |-> body.name,
     concepts |-> SubmittedConcepts(body.concept, NoText)]

SubmittedConceptMap(body) ==
    [url |-> body.url, sourceUri |-> body.sourceUri, targetUri |-> body.targetUri,
     groups |-> [g \in DOMAIN body.group |->
        [source |-> body.group[g].source, target |-> body.group[g].target,
         elements |-> [e \in DOMAIN body.group[g].element |->
            [code |-> body.group[g].element[e].code,
             display |-> body.group[g].element[e].display,
             targets |-> [t \in DOMAIN body.group[g].element[e].target |->
                LET target == body.group[g].element[e].target[t]
                IN  [code |-> target.code, display |-> target.display,
                     equivalence |-> IF target.equivalence = "" THEN "equivalent"
                                     ELSE target.equivalence,
                     comment |-> target.comment,
                     dependsOn |-> target.dependsOn]]]]]]]

CompleteResources ==
    {SubmittedCodeSystem(body) : body \in CodeSystemBodies}
    \cup {SubmittedConceptMap(body) : body \in ConceptMapBodies}

\* A creation that answers 201 returns the complete submitted tree.
CreatedIsComplete ==
    \A c \in Clients :
        (handlers[c].pc = "done" /\ handlers[c].answer.status = 201)
            => handlers[c].answer.resource \in CompleteResources

\* C5: creation of a CodeSystem with its concepts, and of a ConceptMap with
\* its group/element/target tree, is atomic: every CodeSystem and ConceptMap
\* in the store, and so every one a read by id returns, carries its complete
\* submitted tree, and a creation that has failed has left no parent row.
C5_CreationAtomic ==
    /\ \A i \in DOMAIN codeSystems : codeSystems[i] \in CompleteResources
    /\ \A i \in DOMAIN conceptMaps : conceptMaps[i] \in CompleteResources
    /\ (response # Idle /\ response.answer.status = 200)
           => response.answer.resource \in CompleteResources
    /\ \A c \in Clients :
          (handlers[c].pc = "done" /\ handlers[c].answer.status >= 400)
              => handlers[c].created = 0

(***************************************************************************)
(* Uniqueness of the canonical url.                                        *)
(***************************************************************************)
UniqueUrls ==
    /\ \A i, j \in DOMAIN codeSystems :
           codeSystems[i].url = codeSystems[j].url => i = j
    /\ \A i, j \in DOMAIN conceptMaps :
           conceptMaps[i].url = conceptMaps[j].url => i = j

\* The handler of client c checks for, or creates, a parent whose url is in
\* the store already.
CreatesExistingUrl(c) ==
    /\ handlers[c].pc \in {"check", "create"}
    /\ urlExists(IF handlers[c].body.resourceType = "CodeSystem"
                 THEN codeSystems ELSE conceptMaps, handlers[c].body.url)
    /\ CheckExisting(c) \/ CreateParent(c)

\* C19 (as claimed): the store never holds two CodeSystems or two
\* ConceptMaps with the same url, and a create whose url exists already is
\* answered a validation error and creates nothing.
C19_DuplicateIsValidationError ==
    [][/\ UniqueUrls'
       /\ \A c \in Clients :
              CreatesExistingUrl(c) =>
                  /\ handlers'[c].pc = "done"
                  /\ handlers'[c].answer = ValidationErrorResponse
                  /\ handlers'[c].created = 0
                  /\ store' = store]_vars

\* C19 (amended): the store never holds two CodeSystems or two ConceptMaps
\* with the same url, and a create whose url exists already creates nothing
\* and is answered a validation error (400) when the handler's own look-up
\* finds the url, a duplicate-key conflict (409) when the url appeared
\* between that look-up and the create.
C19_DuplicateIsRejected ==
    [][/\ UniqueUrls'
       /\ \A c \in Clients :
              CreatesExistingUrl(c) =>
                  /\ handlers'[c].pc = "done"
                  /\ handlers'[c].answer =
                         (IF handlers[c].pc = "check"
                          THEN ValidationErrorResponse ELSE DuplicateKeyResponse)
                  /\ handlers'[c].created = 0
                  /\ store' = store]_vars

\* C19 witness: two clients have posted the same url concurrently; one has
\* created the resource and the other was answered the conflict.
C19_Witness ==
    \E c, d \in Clients :
        /\ handlers[c].pc = "done"
        /\ handlers[d].pc = "done"
        /\ handlers[c].body.url = handlers[d].body.url
        /\ handlers[c].answer.status = 201
        /\ handlers[d].answer = DuplicateKeyResponse
        /\ UniqueUrls

(***************************************************************************)
(* rateLimit(maxRequests, windowMs): the in-memory rate limiter.           *)
(***************************************************************************)
DefaultMaxRequests == 100
DefaultWindowMs == 15 * 60 * 1000

\* The parameters after the defaults are applied to the arguments given.
maxRequestsOf(args) == IF Len(args) >= 1 THEN args[1] ELSE DefaultMaxRequests
windowMsOf(args) == IF Len(args) >= 2 THEN args[2] ELSE DefaultWindowMs

\* Mutation: the request that finds the limit reached is still let through.
limitExceededLate(requests, maxRequests) == Len(requests) > maxRequests

\* if (rateData.requests.length >= maxRequests)
limitExceeded(requests, maxRequests) == Len(requests) >= maxRequests

\* rateLimitStore.get(key), or the entry created when there is none.
rateDataOf(entries, key, now) ==
    IF entries[key] = <<>> THEN [requests |-> <<>>, windowStart |-> now]
    ELSE entries[key][1]

\* Mutation: the requests that left the window are kept.
cleanOldNever(requests, windowStart) == requests

\* rateData.requests.filter(time => time > windowStart)
cleanOld(requests, windowStart) == SelectSeq(requests, LAMBDA time : time > windowStart)

\* The periodic clean-up: the entries without requests whose windowStart is
\* more than two windows old are deleted.
cleanUpEntries(entries, now, windowMs) ==
    [ip \in DOMAIN entries |->
        IF /\ entries[ip] # <<>>
           /\ Len(entries[ip][1].requests) = 0
           /\ now - entries[ip][1].windowStart > windowMs * 2
        THEN <<>> ELSE entries[ip]]

(***************************************************************************)
(* SpecRateLimit: requests of two IPs pass through one limiter while time  *)
(* goes by.  response is what the limiter did with the last request: n its *)
(* rank, next whether it was handed to the next handler.                   *)
(***************************************************************************)
MaxClock == 4
MaxSent == 5

IPs == {"10.0.0.1", "10.0.0.2"}

LimiterArgs == {<<>>, <<2>>, <<1, 2>>, <<2, 2>>, <<2, 3>>}

InitRateLimit ==
    /\ rateLimitStore = [ip \in IPs |-> <<>>]
    /\ limiterArgs \in LimiterArgs
    /\ clock = 0
    /\ passed = [ip \in IPs |-> <<>>]
    /\ response = Idle
    /\ clinical = NoClinical
    /\ env = NoEnv
    /\ codeSystems = <<>>
    /\ conceptMaps = <<>>
    /\ handlers = NoHandlers
    /\ scoreArgs = [concept |-> ConceptRow(S1, Fever), term |-> Fever]
    /\ scoreResult = NotScored

Sent == IF response = Idle THEN 0 ELSE response.n

\* Time goes by.
Tick ==
    /\ clock < MaxClock
    /\ clock' = clock + 1
    /\ UNCHANGED <<store, handlers, response, scoreArgs, records, scoreResult,
                   rateLimitStore, limiterArgs, passed>>

\* A request of the IP reaches the middleware.  Math.random() < 0.01 is
\* either.
RateLimit(ip) ==
    \E periodic \in BOOLEAN :
        LET maxRequests == maxRequestsOf(limiterArgs)
            windowMs == windowMsOf(limiterArgs)
            now == clock
            windowStart == now - windowMs
            rateData == rateDataOf(rateLimitStore, ip, now)
            requests == cleanOld(rateData.requests, windowStart)
            cleaned == [rateLimitStore EXCEPT
                           ![ip] = <<[rateData EXCEPT !.requests = requests]>>]
            pushed == [rateLimitStore EXCEPT
                          ![ip] = <<[rateData EXCEPT !.requests = Append(requests, now)]>>]
        IN  /\ Sent < MaxSent
            /\ IF limitExceeded(requests, maxRequests)
               THEN /\ rateLimitStore' = cleaned
                    /\ response' = [op |-> "rateLimit", n |-> Sent + 1, ip |-> ip,
                                    time |-> now, status |-> 429, next |-> FALSE]
                    /\ UNCHANGED passed
               ELSE /\ rateLimitStore' = IF periodic
                                         THEN cleanUpEntries(pushed, now, windowMs)
                                         ELSE pushed
                    /\ response' = [op |-> "rateLimit", n |-> Sent + 1, ip |-> ip,
                                    time |-> now, status |-> 200, next |-> TRUE]
                    /\ passed' = [passed EXCEPT ![ip] = Append(@, now)]
            /\ UNCHANGED <<store, handlers, scoreArgs, records, scoreResult,
                           limiterArgs, clock>>

NextRateLimit == Tick \/ \E ip \in IPs : RateLimit(ip)

SpecRateLimit == InitRateLimit /\ [][NextRateLimit]_vars

\* The requests of the IP that were passed on in the windowMs milliseconds
\* that end with t.
PassedInWindow(ip, t) ==
    {i \in DOMAIN passed[ip] :
        /\ passed[ip][i] > t - windowMsOf(limiterArgs)
        /\ passed[ip][i] <= t}

\* C20: for every IP and every interval of windowMs milliseconds at most
\* maxRequests requests are passed to the next handler, 100 per 15 minutes
\* when rateLimit() is given no argument; a request that finds the limit
\* reached is answered 429 and is not passed on.
C20_AtMostMaxPerWindow ==
    /\ limiterArgs = <<>> =>
           /\ maxRequestsOf(limiterArgs) = 100
           /\ windowMsOf(limiterArgs) = 900000
    /\ \A ip \in DOMAIN passed : \A t \in 0..clock :
           Cardinality(PassedInWindow(ip, t)) <= maxRequestsOf(limiterArgs)
    /\ response.op = "rateLimit" =>
           /\ response.status = 429 <=> ~response.next
           /\ response.next =>
                  /\ passed[response.ip] # <<>>
                  /\ passed[response.ip][Len(passed[response.ip])] = response.time
                  /\ Cardinality(PassedInWindow(response.ip, response.time))
                         <= maxRequestsOf(limiterArgs)
           /\ ~response.next =>
                  Cardinality(PassedInWindow(response.ip, response.time))
                      = maxRequestsOf(limiterArgs)

\* C20 witness: an IP was let through, refused, let through again once the
\* window had gone by and is now refused again, while the other IP passes.
C20_Witness ==
    /\ response.op = "rateLimit"
    /\ response.status = 429
    /\ Len(passed[response.ip]) >= 2
    /\ passed[response.ip][1] <= response.time - windowMsOf(limiterArgs)
    /\ \E ip \in IPs : ip # response.ip /\ passed[ip] # <<>>

\* C30: a throttled client recovers.  Whatever was sent before (requests
\* answered 429 included) and whether or not the periodic clean-up ran, a
\* request of an IP that arrives when fewer than maxRequests admitted
\* requests of that IP lie within the last windowMs is admitted; and the
\* requests the limiter counts for an IP are admitted ones only.
C30_ThrottledRecovers ==
    [][/\ \A ip \in IPs :
             (/\ response' # response
              /\ response'.ip = ip
              /\ Cardinality(PassedInWindow(ip, clock))
                     < maxRequestsOf(limiterArgs))
                => response'.next
       /\ \A ip \in IPs :
             rateLimitStore'[ip] # <<>> =>
                 \A k \in DOMAIN rateLimitStore'[ip][1].requests :
                     \E i \in DOMAIN passed'[ip] :
                         passed'[ip][i] = rateLimitStore'[ip][1].requests[k]]_vars

\* C30 witness: the only client sent more requests than were admitted, and
\* its last request was admitted once its first one had left the window.
C30_Witness ==
    /\ response.op = "rateLimit"
    /\ response.next
    /\ \A ip \in IPs : ip # response.ip => passed[ip] = <<>>
    /\ response.n > Len(passed[response.ip])
    /\ Len(passed[response.ip]) >= 2
    /\ passed[response.ip][1] <= response.time - windowMsOf(limiterArgs)

(***************************************************************************)
(* The middleware in front of the write endpoints POST /fhir/Bundle and    *)
(* POST /fhir/problem-list: validateFHIRRequest (mounted on the router),   *)
(* then authenticateApiKey and authorizeAccess(['write']).  A middleware   *)
(* either answers or calls next().                                         *)
(***************************************************************************)
\* 'application/fhir+json', 'application/json', 'text/html'
FhirJson == <<97, 112, 112, 108, 105, 99, 97, 116, 105, 111, 110, 47, 102, 104, 105, 114, 43, 106, 115, 111, 110>>
AppJson == <<97, 112, 112, 108, 105, 99, 97, 116, 105, 111, 110, 47, 106, 115, 111, 110>>
TextHtml == <<116, 101, 120, 116, 47, 104, 116, 109, 108>>

\* 'default-api-key'; the keys 'ka' and 'kb'; 'ka,kb'
DefaultApiKey == <<100, 101, 102, 97, 117, 108, 116, 45, 97, 112, 105, 45, 107, 101, 121>>
KeyA == <<107, 97>>
KeyB == <<107, 98>>
KeysAB == <<107, 97, 44, 107, 98>>

\* next() was called
CalledNext == [status |-> 0, resourceType |-> "none", code |-> "next"]

Outcome(status, code) ==
    [status |-> status, resourceType |-> "OperationOutcome", code |-> code]

\* A request is [method, endpoint, accept, contentType, xApiKey, queryApiKey];
\* an absent header or query parameter is the empty text.
validateFHIRRequest(req) ==
    IF /\ Truthy(req.accept)
       /\ ~includes(req.accept, FhirJson)
       /\ ~includes(req.accept, AppJson)
    THEN Outcome(406, "not-acceptable")
    ELSE IF /\ req.method \in {"POST", "PUT"}
            /\ \/ ~Truthy(req.contentType)
               \/ /\ ~includes(req.contentType, FhirJson)
                  /\ ~includes(req.contentType, AppJson)
    THEN Outcome(415, "unsupported-media-type")
    ELSE CalledNext

\* String.prototype.split(',') : the pieces between the commas.
split(s) ==
    LET commas == {i \in DOMAIN s : s[i] = 44}
        cuts == <<0>> \o [k \in 1..Cardinality(commas) |->
                    CHOOSE i \in commas :
                        Cardinality({j \in commas : j < i}) = k - 1]
                \o <<Len(s) + 1>>
    IN  [k \in 1..(Len(cuts) - 1) |-> SubSeq(s, cuts[k] + 1, cuts[k + 1] - 1)]

\* process.env.VALID_API_KEYS ? process.env.VALID_API_KEYS.split(',')
\*                            : ['default-api-key']
validApiKeys(environment) ==
    IF Truthy(environment.VALID_API_KEYS) THEN split(environment.VALID_API_KEYS)
    ELSE <<DefaultApiKey>>

ApiUser == [id |-> "api-user", role |-> "system", permissions |-> <<"read", "write">>]

\* Mutation: any key that is present is accepted.
authenticateApiKeyUnchecked(req, environment) ==
    LET apiKey == IF Truthy(req.xApiKey) THEN req.xApiKey ELSE req.queryApiKey
    IN  IF ~Truthy(apiKey)
        THEN [answer |-> Outcome(401, "login"), user |-> <<>>]
        ELSE [answer |-> CalledNext, user |-> <<ApiUser>>]

\* The answer, and req.user (<<>> when it is not set).
authenticateApiKey(req, environment) ==
    LET apiKey == IF Truthy(req.xApiKey) THEN req.xApiKey ELSE req.queryApiKey
    IN  IF ~Truthy(apiKey)
        THEN [answer |-> Outcome(401, "login"), user |-> <<>>]
        ELSE IF \A k \in DOMAIN validApiKeys(environment) :
                    validApiKeys(environment)[k] # apiKey
        THEN [answer |-> Outcome(401, "login"), user |-> <<>>]
        ELSE [answer |-> CalledNext, user |-> <<ApiUser>>]

authorizeAccess(requiredPermissions, user) ==
    IF user = <<>> THEN Outcome(401, "login")
    ELSE LET userPermissions == user[1].permissions
             hasPermission ==
                 \/ Len(requiredPermissions) = 0
                 \/ \E i \in DOMAIN requiredPermissions :
                       \E j \in DOMAIN userPermissions :
                           userPermissions[j] = requiredPermissions[i]
         IN  IF ~hasPermission THEN Outcome(403, "forbidden") ELSE CalledNext

\* router.use(validateFHIRRequest); router.post('/', authenticateApiKey,
\* authorizeAccess(['write']), auditLog(...), asyncHandler(...)): the answer
\* of the first middleware that answers, or CalledNext when the handler is
\* reached.  auditLog only logs once the response is finished.
writeChain(req, environment) ==
    IF validateFHIRRequest(req) # CalledNext THEN validateFHIRRequest(req)
    ELSE IF authenticateApiKey(req, environment).answer # CalledNext
    THEN authenticateApiKey(req, environment).answer
    ELSE authorizeAccess(<<"write">>, authenticateApiKey(req, environment).user)

(***************************************************************************)
(* The clinical tables and the entries of a transaction Bundle.            *)
(* clinical = [patient, condition, encounter, created]: the rows of the    *)
(* three tables and the number of ids handed out so far (the id of a new   *)
(* row is never one that was used before).  A condition row also records   *)
(* `via`, the endpoint that created it.                                    *)
(* A reference 'Patient/1' is <<"Patient", 1>>, a url 'Condition/1' is     *)
(* <<"Condition", 1>> and 'Condition' is <<"Condition">>.                  *)
(***************************************************************************)
ICD11_2022 == "http://id.who.int/icd/release/11/2022"

\* 'POST', 'PUT', 'DELETE', 'PATCH', 'post'
POST == <<80, 79, 83, 84>>
PUT == <<80, 85, 84>>
DELETE == <<68, 69, 76, 69, 84, 69>>
PATCH == <<80, 65, 84, 67, 72>>
PostLower == <<112, 111, 115, 116>>

toUpperChar(c) == IF c \in 97..122 THEN c - 32 ELSE c

toUpperCase(s) == [i \in 1..Len(s) |-> toUpperChar(s[i])]

\* reference.replace('Patient/', '')
replacePrefix(reference, prefix) ==
    IF reference[1] = prefix THEN reference[2] ELSE reference

\* prisma.<table>.findUnique({ where: { id } }): <<row>> or <<>> (null)
findUniqueRow(rows, id) == SelectSeq(rows, LAMBDA r : r.id = id)

\* The outcome of processing an entry: it threw, or it returned a result;
\* and the tables afterwards.
Thrown(db) == [ok |-> FALSE, result |-> <<>>, db |-> db]
Returned(result, db) == [ok |-> TRUE, result |-> <<result>>, db |-> db]

\* conditionData.code.coding holds a NAMASTE coding and an ICD-11 coding.
hasDualCoding(coding) ==
    /\ \E i \in DOMAIN coding : coding[i].system = NAMASTE
    /\ \E i \in DOMAIN coding :
          coding[i].system = ICD11_TM2 \/ coding[i].system = ICD11_2022

\* conditionData is [subject, code]: subject <<>> or <<reference>>, code <<>>
\* or <<coding>>.
createCondition(conditionData, db) ==
    IF conditionData.subject = <<>> THEN Thrown(db)
    ELSE IF conditionData.code = <<>> THEN Thrown(db)
    ELSE
    LET patientId == replacePrefix(conditionData.subject[1], "Patient")
    IN  IF findUniqueRow(db.patient, patientId) = <<>> THEN Thrown(db)
        ELSE IF ~hasDualCoding(conditionData.code[1]) THEN Thrown(db)
        ELSE Returned([status |-> "201", resourceType |-> "Condition",
                       id |-> db.created + 1],
                      [db EXCEPT !.condition =
                                     Append(@, [id |-> db.created + 1,
                                                subjectId |-> patientId,
                                                coding |-> conditionData.code[1],
                                                via |-> "Bundle"]),
                                 !.created = @ + 1])

createPatient(patientData, db) ==
    Returned([status |-> "201", resourceType |-> "Patient", id |-> db.created + 1],
             [db EXCEPT !.patient = Append(@, [id |-> db.created + 1]),
                        !.created = @ + 1])

createEncounter(encounterData, db) ==
    IF encounterData.subject = <<>> THEN Thrown(db)
    ELSE
    LET patientId == replacePrefix(encounterData.subject[1], "Patient")
    IN  IF findUniqueRow(db.patient, patientId) = <<>> THEN Thrown(db)
        ELSE Returned([status |-> "201", resourceType |-> "Encounter",
                       id |-> db.created + 1],
                      [db EXCEPT !.encounter =
                                     Append(@, [id |-> db.created + 1,
                                                subjectId |-> patientId]),
                                 !.created = @ + 1])

\* prisma.condition.update: a field given as undefined is left as it is.  A
\* subject that is no patient row breaks the relation and the update
\* throws.
updateCondition(id, conditionData, db) ==
    LET existing == findUniqueRow(db.condition, id)
        patientId == IF conditionData.subject # <<>>
                     THEN replacePrefix(conditionData.subject[1], "Patient")
                     ELSE existing[1].subjectId
    IN  IF existing = <<>> THEN Thrown(db)
        ELSE IF findUniqueRow(db.patient, patientId) = <<>> THEN Thrown(db)
        ELSE Returned([status |-> "200", resourceType |-> "Condition", id |-> id],
                      [db EXCEPT !.condition =
                          [k \in DOMAIN @ |->
                              IF @[k].id # id THEN @[k]
                              ELSE [@[k] EXCEPT
                                      !.subjectId = patientId,
                                      !.coding = IF conditionData.code = <<>> THEN @
                                                 ELSE conditionData.code[1]]]])

updatePatient(id, patientData, db) ==
    IF findUniqueRow(db.patient, id) = <<>> THEN Thrown(db)
    ELSE Returned([status |-> "200", resourceType |-> "Patient", id |-> id], db)

updateEncounter(id, encounterData, db) ==
    LET existing == findUniqueRow(db.encounter, id)
        patientId == IF encounterData.subject # <<>>
                     THEN replacePrefix(encounterData.subject[1], "Patient")
                     ELSE existing[1].subjectId
    IN  IF existing = <<>> THEN Thrown(db)
        ELSE IF findUniqueRow(db.patient, patientId) = <<>> THEN Thrown(db)
        ELSE Returned([status |-> "200", resourceType |-> "Encounter", id |-> id],
                      [db EXCEPT !.encounter =
                          [k \in DOMAIN @ |->
                              IF @[k].id # id THEN @[k]
                              ELSE [@[k] EXCEPT !.subjectId = patientId]]])

deleteCondition(id, db) ==
    IF findUniqueRow(db.condition, id) = <<>> THEN Thrown(db)
    ELSE Returned([status |-> "204"],
                  [db EXCEPT !.condition = SelectSeq(@, LAMBDA r : r.id # id)])

\* prisma.patient.delete on a patient that conditions or encounters refer
\* to: the relation's referential action decides ("Restrict": the delete
\* throws; "Cascade": the rows that refer to the patient go with it).
deletePatient(id, db, referential) ==
    LET referred ==
            \/ \E k \in DOMAIN db.condition : db.condition[k].subjectId = id
            \/ \E k \in DOMAIN db.encounter : db.encounter[k].subjectId = id
    IN  IF findUniqueRow(db.patient, id) = <<>> THEN Thrown(db)
        ELSE IF referred /\ referential = "Restrict" THEN Thrown(db)
        ELSE Returned([status |-> "204"],
                      [db EXCEPT
                          !.patient = SelectSeq(@, LAMBDA r : r.id # id),
                          !.condition = SelectSeq(@, LAMBDA r : r.subjectId # id),
                          !.encounter = SelectSeq(@, LAMBDA r : r.subjectId # id)])

deleteEncounter(id, db) ==
    IF findUniqueRow(db.encounter, id) = <<>> THEN Thrown(db)
    ELSE Returned([status |-> "204"],
                  [db EXCEPT !.encounter = SelectSeq(@, LAMBDA r : r.id # id)])

\* const resourceType = url.split('/')[0]
handleCreate(resource, url, db) ==
    CASE url[1] = "Condition" -> createCondition(resource, db)
      [] url[1] = "Patient" -> createPatient(resource, db)
      [] url[1] = "Encounter" -> createEncounter(resource, db)
      [] OTHER -> Thrown(db)

\* parts = url.split('/'); resourceType = parts[0]; id = parts[1], which is
\* undefined (0, the id of no row) when the url has no second part.
handleUpdate(resource, url, db) ==
    LET id == IF Len(url) >= 2 THEN url[2] ELSE 0
    IN  CASE url[1] = "Condition" -> updateCondition(id, resource, db)
          [] url[1] = "Patient" -> updatePatient(id, resource, db)
          [] url[1] = "Encounter" -> updateEncounter(id, resource, db)
          [] OTHER -> Thrown(db)

handleDelete(url, db, referential) ==
    LET id == IF Len(url) >= 2 THEN url[2] ELSE 0
    IN  CASE url[1] = "Condition" -> deleteCondition(id, db)
          [] url[1] = "Patient" -> deletePatient(id, db, referential)
          [] url[1] = "Encounter" -> deleteEncounter(id, db)
          [] OTHER -> Thrown(db)

\* An entry is [resource, request]; request is <<>> when the entry has no
\* request or the request no method, else <<[method, url]>>.
processBundleEntry(entry, db, referential) ==
    IF entry.request = <<>> THEN Thrown(db)
    ELSE LET request == entry.request[1]
             method == toUpperCase(request.method)
         IN  CASE method = POST -> handleCreate(entry.resource, request.url, db)
               [] method = PUT -> handleUpdate(entry.resource, request.url, db)
               [] method = DELETE -> handleDelete(request.url, db, referential)
               [] OTHER -> Thrown(db)

\* The handler of POST /fhir/Bundle before its loop: the error thrown for the
\* body, "" when the body is a transaction Bundle with entries.  A bundle is
\* [resourceType, type, entry]; entry is <<>> when absent, else <<entries>>.
bundleError(bundle) ==
    IF bundle.resourceType # "Bundle" THEN "ValidationError"
    ELSE IF bundle.type # "transaction" THEN "ValidationError"
    ELSE IF bundle.entry = <<>> THEN "ValidationError"
    ELSE ""

\* The answer once every entry was processed: the 400 OperationOutcome with
\* one issue per failed entry, or the transaction-response.
bundleAnswer(results, errors) ==
    IF Len(errors) > 0
    THEN [status |-> 400, resourceType |-> "OperationOutcome", code |-> "processing",
          issue |-> errors]
    ELSE [status |-> 200, resourceType |-> "Bundle", type |-> "transaction-response",
          entry |-> results]

\* The handler of POST /fhir/problem-list.  The body is [patientId,
\* namasteCode, icd11Code], 0 and the empty text standing for absent
\* fields.  The answer and the tables afterwards.
createProblemList(body, db) ==
    LET Refused(answer) == [answer |-> answer, db |-> db]
        namasteConcept == findFirstConcept(body.namasteCode, NAMASTE)
        mappings == findMappingsForConcept(body.namasteCode, NAMASTE, NoSystem)
        systemUrl == icd11Systems[icd11Turns(body.icd11Code)]
        icd11Concept == findFirstConcept(body.icd11Code, systemUrl)
        reverseMappings == findReverseMappingsForConcept(body.icd11Code, systemUrl)
        reverseConcept == findFirstConcept(reverseMappings[1].sourceCode,
                                           reverseMappings[1].sourceSystem)
        namasteCoding ==
            IF ~Truthy(body.namasteCode) THEN <<>>
            ELSE <<[system |-> NAMASTE, code |-> namasteConcept[1].code]>>
                 \o (IF ~Truthy(body.icd11Code) /\ Len(mappings) > 0
                     THEN <<[system |-> mappings[1].targetSystem,
                             code |-> mappings[1].targetCode]>>
                     ELSE <<>>)
        icd11Coding ==
            IF ~Truthy(body.icd11Code) THEN <<>>
            ELSE <<[system |-> systemUrl, code |-> icd11Concept[1].code]>>
                 \o (IF /\ ~Truthy(body.namasteCode)
                        /\ Len(reverseMappings) > 0
                        /\ reverseConcept # <<>>
                     THEN <<[system |-> reverseMappings[1].sourceSystem,
                             code |-> reverseConcept[1].code]>>
                     ELSE <<>>)
        coding == namasteCoding \o icd11Coding
    IN  IF body.patientId = 0 THEN Refused(ValidationErrorResponse)
        ELSE IF ~Truthy(body.namasteCode) /\ ~Truthy(body.icd11Code)
        THEN Refused(ValidationErrorResponse)
        ELSE IF findUniqueRow(db.patient, body.patientId) = <<>>
        THEN Refused(NotFoundResponse)
        ELSE IF Truthy(body.namasteCode) /\ namasteConcept = <<>>
        THEN Refused(ValidationErrorResponse)
        ELSE IF Truthy(body.icd11Code) /\ icd11Concept = <<>>
        THEN Refused(ValidationErrorResponse)
        ELSE IF Len(coding) = 0 THEN Refused(ValidationErrorResponse)
        ELSE [answer |-> [status |-> 201, resourceType |-> "Condition",
                          id |-> db.created + 1],
              db |-> [db EXCEPT !.condition =
                                    Append(@, [id |-> db.created + 1,
                                               subjectId |-> body.patientId,
                                               coding |-> coding,
                                               via |-> "problem-list"]),
                                !.created = @ + 1]]

(***************************************************************************)
(* SpecWrite: requests to the two write endpoints, one after another, on   *)
(* a store with one patient.  handlers holds the request being served      *)
(* (<<>> when none is), response what the last finished request was        *)
(* answered: n its rank, ran whether the handler body ran, body what the   *)
(* handler read.                                                           *)
(***************************************************************************)
MaxRequests == 2

WriteRequests ==
    [method : {"POST"},
     endpoint : {"Bundle", "problem-list"},
     accept : {NoText, FhirJson, TextHtml},
     contentType : {NoText, AppJson},
     xApiKey : {NoText, DefaultApiKey, KeyA},
     queryApiKey : {NoText, KeyB}]

Environments == {[VALID_API_KEYS |-> NoText], [VALID_API_KEYS |-> KeysAB]}

PatientOne == <<"Patient", 1>>

NamasteCoding == [system |-> NAMASTE, code |-> S1]

\* Condition resources: dual-coded (two ICD-11 releases), NAMASTE only,
\* without subject, without code, and for a patient that does not exist.
DualCoded == [subject |-> <<PatientOne>>,
              code |-> <<<<NamasteCoding, [system |-> ICD11_TM2, code |-> T1]>>>>]
DualCoded2022 == [subject |-> <<PatientOne>>,
                  code |-> <<<<[system |-> ICD11_2022, code |-> T1], NamasteCoding>>>>]
NamasteOnly == [subject |-> <<PatientOne>>, code |-> <<<<NamasteCoding>>>>]
NoSubject == [subject |-> <<>>, code |-> <<<<NamasteCoding>>>>]
NoCode == [subject |-> <<PatientOne>>, code |-> <<>>]
NoSuchPatient == [subject |-> <<<<"Patient", 9>>>>, code |-> DualCoded.code]
RecodedOnly == [subject |-> <<>>, code |-> <<<<NamasteCoding>>>>]
Untouched == [subject |-> <<>>, code |-> <<>>]

Entry(method, url, resource) ==
    [resource |-> resource, request |-> <<[method |-> method, url |-> url]>>]

Bundle(entries) ==
    [resourceType |-> "Bundle", type |-> "transaction", entry |-> <<entries>>]

Bundles ==
    { [resourceType |-> "Patient", type |-> "transaction", entry |-> <<<<>>>>],
      [resourceType |-> "Bundle", type |-> "batch", entry |-> <<<<>>>>],
      [resourceType |-> "Bundle", type |-> "transaction", entry |-> <<>>],
      Bundle(<<>>),
      Bundle(<<Entry(POST, <<"Condition">>, DualCoded)>>),
      Bundle(<<Entry(POST, <<"Condition">>, DualCoded2022),
               Entry(POST, <<"Condition">>, NamasteOnly)>>),
      Bundle(<<Entry(POST, <<"Condition">>, NoSubject),
               Entry(POST, <<"Condition">>, NoCode),
               Entry(POST, <<"Condition">>, NoSuchPatient)>>),
      Bundle(<<Entry(PUT, <<"Condition", 2>>, RecodedOnly)>>),
      Bundle(<<Entry(PUT, <<"Condition", 2>>, Untouched),
               Entry(DELETE, <<"Condition", 2>>, Untouched)>>),
      Bundle(<<Entry(PostLower, <<"Patient">>, Untouched),
               Entry(POST, <<"Encounter">>, NoCode),
               Entry(PUT, <<"Patient", 1>>, Untouched)>>),
      Bundle(<<Entry(PUT, <<"Encounter", 2>>, Untouched),
               Entry(DELETE, <<"Encounter", 2>>, Untouched),
               Entry(DELETE, <<"Patient", 1>>, Untouched)>>),
      Bundle(<<Entry(DELETE, <<"Patient", 1>>, Untouched),
               Entry(POST, <<"Condition">>, DualCoded)>>),
      Bundle(<<Entry(POST, <<"Observation">>, Untouched),
               Entry(PATCH, <<"Condition", 2>>, Untouched),
               [resource |-> Untouched, request |-> <<>>],
               Entry(PUT, <<"Condition">>, Untouched)>>) }

ProblemListBodies ==
    [patientId : {0, 1, 9}, namasteCode : {NoText, S1, S2, ZZ},
     icd11Code : {NoText, T1, ZZ}]

InitWrite ==
    /\ clinical = [patient |-> <<[id |-> 1]>>, condition |-> <<>>,
                   encounter |-> <<>>, created |-> 1]
    /\ env \in Environments
    /\ codeSystems = FullConceptStore
    /\ conceptMaps = <<NamasteToTm2>>
    /\ handlers = NoHandlers
    /\ response = Idle
    /\ scoreArgs = [concept |-> ConceptRow(S1, Fever), term |-> Fever]
    /\ scoreResult = NotScored
    /\ rateLimitStore = NoLimiter
    /\ limiterArgs = <<>>
    /\ clock = 0
    /\ passed = NoLimiter

Served == IF response = Idle THEN 0 ELSE response.n

Answered(request, ran, body, answer) ==
    [op |-> "write", n |-> Served + 1, request |-> request, ran |-> ran,
     body |-> body, answer |-> answer]

\* A request reaches a write endpoint and passes through the middleware: it
\* is answered there, or the handler is reached.
Arrive ==
    \E req \in WriteRequests :
        /\ handlers = NoHandlers
        /\ Served < MaxRequests
        /\ IF writeChain(req, env) # CalledNext
           THEN /\ response' = Answered(req, FALSE, <<>>, writeChain(req, env))
                /\ UNCHANGED handlers
           ELSE /\ handlers' = <<[pc |-> "handler", request |-> req]>>
                /\ UNCHANGED response
        /\ UNCHANGED <<store, scoreArgs, scoreResult, limiter, clinical, env>>

\* The Bundle handler reads the body: it throws a ValidationError, which
\* errorHandler answers, or enters the loop over the entries.
PostBundle ==
    \E bundle \in Bundles :
        /\ handlers # NoHandlers
        /\ handlers[1].pc = "handler"
        /\ handlers[1].request.endpoint = "Bundle"
        /\ IF bundleError(bundle) # ""
           THEN /\ response' = Answered(handlers[1].request, TRUE, <<bundle>>,
                                        errorHandler(bundleError(bundle)))
                /\ handlers' = NoHandlers
           ELSE /\ handlers' = <<[pc |-> "entries", request |-> handlers[1].request,
                                  bundle |-> bundle, before |-> clinical,
                                  results |-> <<>>, errors |-> <<>>]>>
                /\ UNCHANGED response
        /\ UNCHANGED <<store, scoreArgs, scoreResult, limiter, clinical, env>>

\* One turn of the loop: try { results.push(await processBundleEntry(entry)) }
\* catch (error) { errors.push(...) }
ProcessEntry ==
    \E referential \in {"Restrict", "Cascade"} :
        /\ handlers # NoHandlers
        /\ handlers[1].pc = "entries"
        /\ Len(handlers[1].results) + Len(handlers[1].errors)
              < Len(handlers[1].bundle.entry[1])
        /\ LET turn == Len(handlers[1].results) + Len(handlers[1].errors) + 1
               outcome == processBundleEntry(handlers[1].bundle.entry[1][turn],
                                             clinical, referential)
           IN  /\ clinical' = outcome.db
               /\ handlers' =
                     IF outcome.ok
                     THEN [handlers EXCEPT ![1].results = @ \o outcome.result]
                     ELSE [handlers EXCEPT ![1].errors = Append(@, turn)]
        /\ UNCHANGED <<store, response, scoreArgs, scoreResult, limiter, env>>

\* After the loop the handler answers.
BundleRespond ==
    /\ handlers # NoHandlers
    /\ handlers[1].pc = "entries"
    /\ Len(handlers[1].results) + Len(handlers[1].errors)
          = Len(handlers[1].bundle.entry[1])
    /\ response' = Answered(handlers[1].request, TRUE, <<handlers[1].bundle>>,
                            bundleAnswer(handlers[1].results, handlers[1].errors))
    /\ handlers' = NoHandlers
    /\ UNCHANGED <<store, scoreArgs, scoreResult, limiter, clinical, env>>

\* The problem-list handler runs.
PostProblemList ==
    \E body \in ProblemListBodies :
        /\ handlers # NoHandlers
        /\ handlers[1].pc = "handler"
        /\ handlers[1].request.endpoint = "problem-list"
        /\ response' = Answered(handlers[1].request, TRUE, <<body>>,
                                createProblemList(body, clinical).answer)
        /\ clinical' = createProblemList(body, clinical).db
        /\ handlers' = NoHandlers
        /\ UNCHANGED <<store, scoreArgs, scoreResult, limiter, env>>

NextWrite ==
    \/ Arrive
    \/ PostBundle
    \/ ProcessEntry
    \/ BundleRespond
    \/ PostProblemList

SpecWrite == InitWrite /\ [][NextWrite]_vars

(***************************************************************************)
(* Claims about the write endpoints.                                       *)
(***************************************************************************)
\* The request carries the key, in the x-api-key header or the api_key
\* query parameter.
CarriesKey(req, key) == Truthy(key) /\ (req.xApiKey = key \/ req.queryApiKey = key)

\* The request carries no API key, or only keys outside the configured set.
NoValidKey(req) ==
    \A k \in DOMAIN validApiKeys(env) : ~CarriesKey(req, validApiKeys(env)[k])

\* The user of the request holds the 'write' permission.
HoldsWrite(req) ==
    /\ authenticateApiKey(req, env).user # <<>>
    /\ \E j \in DOMAIN authenticateApiKey(req, env).user[1].permissions :
          authenticateApiKey(req, env).user[1].permissions[j] = "write"

\* The handler body runs only for requests with a valid key whose user
\* holds 'write'.
HandlerOnlyForWriters ==
    /\ handlers' # NoHandlers =>
          ~NoValidKey(handlers'[1].request) /\ HoldsWrite(handlers'[1].request)
    /\ (response' # response /\ response'.ran) =>
          ~NoValidKey(response'.request) /\ HoldsWrite(response'.request)

SameRows(a, b) ==
    /\ a.patient = b.patient
    /\ a.condition = b.condition
    /\ a.encounter = b.encounter

\* The response entry answers the request entry: 201 and the resource type
\* for a POST, 200 and the resource for a PUT, 204 for a DELETE.
AnswersEntry(result, entry) ==
    /\ entry.request # <<>>
    /\ LET request == entry.request[1]
       IN  CASE toUpperCase(request.method) = POST ->
                    /\ result.status = "201"
                    /\ result.resourceType = request.url[1]
             [] toUpperCase(request.method) = PUT ->
                    /\ result.status = "200"
                    /\ result.resourceType = request.url[1]
                    /\ result.id = request.url[2]
             [] toUpperCase(request.method) = DELETE -> result.status = "204"
             [] OTHER -> FALSE

\* C27 (as claimed): a transaction Bundle is all-or-nothing.  When the loop
\* over the entries ends with an error and the handler answers the 400
\* OperationOutcome, the tables hold the rows they held before the bundle;
\* when every entry succeeded, the transaction-response has one entry per
\* request entry, in request order.
C27_BundleAllOrNothing ==
    [][(/\ response' # response
        /\ handlers # NoHandlers
        /\ handlers[1].pc = "entries") =>
           /\ response'.answer.status = 400 =>
                 SameRows(clinical', handlers[1].before)
           /\ response'.answer.status = 200 =>
                 /\ Len(response'.answer.entry) = Len(handlers[1].bundle.entry[1])
                 /\ \A k \in DOMAIN response'.answer.entry :
                       AnswersEntry(response'.answer.entry[k],
                                    handlers[1].bundle.entry[1][k])]_vars

\* The system urls of ICD-11.
Icd11Urls == {ICD11_TM2, ICD11_2022, ICD11}

\* C28 (as claimed): every Condition that a bundle entry created and that
\* still exists carries at least one NAMASTE coding and at least one ICD-11
\* coding, after any sequence of bundle transactions.
C28_BundleConditionsDualCoded ==
    \A k \in DOMAIN clinical.condition :
        clinical.condition[k].via = "Bundle" =>
            /\ \E i \in DOMAIN clinical.condition[k].coding :
                  clinical.condition[k].coding[i].system = NAMASTE
            /\ \E i \in DOMAIN clinical.condition[k].coding :
                  clinical.condition[k].coding[i].system \in Icd11Urls
====
